---- MODULE Spec2Model ----
(***************************************************************************)
(* Model of the alpha-beta UCI engine binary (ab_engine_rust/src/main.rs): *)
(* the command dispatcher of main(), the search worker thread spawned per  *)
(* `go`, and the search it runs (root_search, negamax, qsearch, the        *)
(* transposition table and move ordering).                                 *)
(*                                                                         *)
(* The external `chess` crate (Board, MoveGen) is represented by a finite  *)
(* table of boards: each board lists its legal moves and the attributes    *)
(* the engine queries (side to move, checkers, material, hash).            *)
(***************************************************************************)
EXTENDS Integers, Sequences, FiniteSets, TLC

\* ------------------------------------------------------------------------
\* Bounds of the model
\* ------------------------------------------------------------------------
MaxCmds == 3
MaxRace == 2

\* ------------------------------------------------------------------------
\* Tunables (main.rs 17-52)
\* ------------------------------------------------------------------------
DEFAULT_DEPTH == 8
MAX_AB_DEPTH == 64
INF == 60000
MATE == 30000
Q_INCLUDE_CHECKS == TRUE
Q_FUTILITY_MARGIN == 150
LMR_MIN_DEPTH == 3
LMR_BASE_REDUCTION == 1
FUTILITY_MARGIN_BASE == 200
MCP_MIN_DEPTH == 3
MCP_START_AT == 6
ASP_WINDOW == 24
ASP_MAX_WIDEN == 2048
P == 100
N == 320
B == 330
R_ == 500
Q_ == 900
EXACT == 0
ALPHA == -1
BETA == 1
TT_ASSOC == 4
EMPTY_DEPTH == -32768
ENTRY_SIZE == 24
TT_MB == 0

\* ------------------------------------------------------------------------
\* Small helpers
\* ------------------------------------------------------------------------
Max(a, b) == IF a > b THEN a ELSE b
Min(a, b) == IF a < b THEN a ELSE b

\* clamp of main.rs: the upper bound is compared but never applied.
clamp(v, lo, hi) == IF v < lo THEN lo ELSE IF v > hi THEN v ELSE v

\* F applied to the value of v (v is evaluated once).
With(v, F(_)) == CHOOSE r \in {F(x) : x \in {v}} : TRUE

Get(f, k, dflt) == IF k \in DOMAIN f THEN f[k] ELSE dflt
Put(f, k, v) == [x \in (DOMAIN f) \cup {k} |-> IF x = k THEN v ELSE f[x]]

\* ------------------------------------------------------------------------
\* Moves: (from-square, to-square, promotion); squares are rank*8+file.
\* Promotion codes: 0 none, 1 knight, 2 bishop, 3 rook, 4 queen.
\* ------------------------------------------------------------------------
NoMove == [from |-> 64, to |-> 64, promo |-> 0]
Mv(f, t) == [from |-> f, to |-> t, promo |-> 0]

Sq(file, rank) == (rank - 1) * 8 + (file - 1)

\* The promotion kept in two bits instead of three.
pack_move_two_bits(m) == (m.from % 64) + ((m.to % 64) * 64) + ((m.promo % 4) * 4096)

pack_move(m) == (m.from % 64) + ((m.to % 64) * 64) + ((m.promo % 8) * 4096)

unpack_move(code) ==
    IF code = 0 THEN NoMove
    ELSE LET p == (code \div 4096) % 8
         IN [from |-> code % 64, to |-> (code \div 64) % 64,
             promo |-> IF p \in 1..4 THEN p ELSE 0]

\* ------------------------------------------------------------------------
\* The boards (chess::Board).  `moves` is MoveGen::new_legal in generation
\* order; each move carries what piece_on/color_on report for it:
\* cap (enemy piece on the destination), victim and attacker piece values,
\* and next, the board make_move_new returns.
\* ------------------------------------------------------------------------
W == 0
Bl == 1

Mk(f, t, nx) == [mv |-> Mv(f, t), next |-> nx, cap |-> FALSE, victim |-> 0, attacker |-> 0]
MkA(f, t, nx, att) == [mv |-> Mv(f, t), next |-> nx, cap |-> FALSE, victim |-> 0, attacker |-> att]
MkCap(f, t, nx, vic, att) == [mv |-> Mv(f, t), next |-> nx, cap |-> TRUE, victim |-> vic, attacker |-> att]

Bd(s, chk, mat, tot, ms) ==
    [stm |-> s, in_check |-> chk, material |-> mat, total |-> tot,
     insufficient |-> FALSE, halfmove |-> 0, moves |-> ms]

START == 0
MATE1 == 11
MATED == 12
STALE == 16
\* A position given by `position fen`: White has four pawn moves and a knight
\* move that starts a four-ply knight shuffle back to the same position.
SHUFFLE == 17
\* A position given by `position fen`: White's queen takes an unguarded queen
\* with check (Qh5xg6+) and Black's only replies are the quiet king moves
\* Ke7 and Kd8; afterwards a knight and the king shuffle.
HANGING == 26

\* The table as written: a board is <<side to move, in check, material
\* balance, total material, moves>>, a move <<from, to, next board, victim,
\* attacker>> with a square written file-then-rank (71 is g1).
BoardRows ==
    <<<<W, FALSE, 0, 7800, <<<<71, 63, 1, 0, N>>, <<52, 54, 4, 0, P>>>>>>,
      <<Bl, FALSE, 0, 7800, <<<<78, 66, 2, 0, N>>>>>>,
      <<W, FALSE, 0, 7800, <<<<63, 71, 3, 0, N>>>>>>,
      <<Bl, FALSE, 0, 7800, <<<<66, 78, 0, 0, N>>>>>>,
      <<Bl, FALSE, 0, 7800, <<<<47, 45, 5, 0, P>>>>>>,
      <<W, FALSE, 0, 7800, <<<<71, 63, 1, 0, N>>, <<54, 45, 6, P, P>>>>>>,
      <<Bl, FALSE, 100, 7700, <<<<48, 45, 7, P, Q_>>>>>>,
      <<W, FALSE, 0, 7600, <<<<21, 33, 8, 0, N>>>>>>,
      <<Bl, FALSE, 0, 7600, <<<<45, 48, 9, 0, Q_>>>>>>,
      <<W, FALSE, 0, 7600, <<<<33, 21, 10, 0, N>>>>>>,
      <<Bl, FALSE, 0, 7600, <<<<48, 45, 7, 0, Q_>>>>>>,
      <<W, FALSE, 500, 500, <<<<71, 61, 13, 0, 0>>, <<11, 18, 12, 0, R_>>>>>>,
      <<Bl, TRUE, 500, 500, <<>>>>,
      <<Bl, FALSE, 500, 500, <<<<78, 88, 14, 0, 0>>>>>>,
      <<W, FALSE, 500, 500, <<<<61, 71, 15, 0, 0>>>>>>,
      <<Bl, FALSE, 500, 500, <<<<88, 78, 11, 0, 0>>>>>>,
      <<Bl, FALSE, 900, 900, <<>>>>,
      <<W, FALSE, 0, 7800, <<<<12, 13, 21, 0, P>>, <<22, 23, 22, 0, P>>, <<32, 33, 23, 0, P>>, <<42, 43, 24, 0, P>>, <<71, 63, 18, 0, N>>>>>>,
      <<Bl, FALSE, 0, 7800, <<<<78, 66, 19, 0, N>>>>>>,
      <<W, FALSE, 0, 7800, <<<<63, 71, 20, 0, N>>>>>>,
      <<Bl, FALSE, 0, 7800, <<<<66, 78, 17, 0, N>>>>>>,
      <<Bl, FALSE, 0, 7800, <<<<78, 66, 25, 0, N>>>>>>,
      <<Bl, FALSE, 0, 7800, <<<<78, 66, 25, 0, N>>>>>>,
      <<Bl, FALSE, 0, 7800, <<<<78, 66, 25, 0, N>>>>>>,
      <<Bl, FALSE, 0, 7800, <<<<78, 66, 25, 0, N>>>>>>,
      <<W, FALSE, 0, 7800, <<>>>>,
      <<W, FALSE, 100, 7700, <<<<85, 76, 27, Q_, Q_>>>>>>,
      <<Bl, TRUE, 1000, 6800, <<<<58, 57, 28, 0, 0>>, <<58, 48, 29, 0, 0>>>>>>,
      <<W, FALSE, 1000, 6800, <<<<71, 63, 30, 0, N>>>>>>,
      <<W, FALSE, 1000, 6800, <<<<71, 63, 33, 0, N>>>>>>,
      <<Bl, FALSE, 1000, 6800, <<<<57, 48, 31, 0, 0>>>>>>,
      <<W, FALSE, 1000, 6800, <<<<63, 71, 32, 0, N>>>>>>,
      <<Bl, FALSE, 1000, 6800, <<<<48, 57, 28, 0, 0>>>>>>,
      <<Bl, FALSE, 1000, 6800, <<<<48, 57, 34, 0, 0>>>>>>,
      <<W, FALSE, 1000, 6800, <<<<63, 71, 35, 0, N>>>>>>,
      <<Bl, FALSE, 1000, 6800, <<<<57, 48, 29, 0, 0>>>>>>>>
SqOf(n) == Sq(n \div 10, n % 10)
MoveOf(r) ==
    IF r[4] # 0 THEN MkCap(SqOf(r[1]), SqOf(r[2]), r[3], r[4], r[5])
    ELSE MkA(SqOf(r[1]), SqOf(r[2]), r[3], r[5])
BdOf(r) == Bd(r[1], r[2], r[3], r[4], [j \in 1..Len(r[5]) |-> MoveOf(r[5][j])])

Boards == [i \in 0..(Len(BoardRows) - 1) |-> BdOf(BoardRows[i + 1])]

BoardIds == DOMAIN Boards

\* Board::get_hash via board_key (main.rs 108-111): a nonzero key per board.
board_key(b) == 1000 + b

legal(b) == Boards[b].moves
LegalMoves(b) == {legal(b)[i].mv : i \in 1..Len(legal(b))}
MoveRec(b, m) == LET i == CHOOSE j \in 1..Len(legal(b)) : legal(b)[j].mv = m IN legal(b)[i]
make_move_new(b, m) == MoveRec(b, m).next
checkers(b) == Boards[b].in_check
status(b) ==
    IF Len(legal(b)) > 0 THEN "Ongoing"
    ELSE IF checkers(b) THEN "Checkmate" ELSE "Stalemate"
insufficient_material(b) == Boards[b].insufficient
halfmove_clock_from_fen(b) == Boards[b].halfmove
total_material_excl_kings(b) == Boards[b].total
is_endgame_like(b) == total_material_excl_kings(b) <= 1200
gives_check(b, m) == checkers(make_move_new(b, m))

\* ------------------------------------------------------------------------
\* Static evaluation (main.rs 354-387): material from White's view plus
\* mobility/4, turned to the side to move, clamped.
\* ------------------------------------------------------------------------
evaluate(b) ==
    IF status(b) = "Checkmate" THEN -MATE
    ELSE IF status(b) = "Stalemate" THEN 0
    ELSE IF insufficient_material(b) THEN 0
    ELSE IF halfmove_clock_from_fen(b) >= 100 THEN 0
    ELSE LET score == Boards[b].material + (Len(legal(b)) \div 4)
             pov == IF Boards[b].stm = W THEN score ELSE -score
         IN clamp(pov, -INF + 1, INF - 1)

is_capture(b, m) == MoveRec(b, m).cap

mvv_lva(b, m) ==
    IF ~is_capture(b, m) THEN 0
    ELSE 10000 + MoveRec(b, m).victim * 10 - MoveRec(b, m).attacker

\* ------------------------------------------------------------------------
\* Move ordering (main.rs 426-448): stable sort by descending key.
\* history is keyed by (side to move, destination square).
\* ------------------------------------------------------------------------
OrderKey(b, m, tt_move, killers, history) ==
      (IF tt_move # NoMove /\ m = tt_move THEN 10000000 ELSE 0)
    + mvv_lva(b, m)
    + (IF killers[1] # NoMove /\ m = killers[1] THEN 5000000 ELSE 0)
    + (IF killers[2] # NoMove /\ m = killers[2] THEN 5000000 ELSE 0)
    + (IF gives_check(b, m) THEN 1000 ELSE 0)
    + Get(history, <<Boards[b].stm, m.to>>, 0)
    + (IF is_capture(b, m) THEN 1 ELSE 0)

\* Stable descending sort of the indices 1..n of a key sequence.
SortDescStable(keys0) ==
    With(keys0, LAMBDA keys :
       LET n == Len(keys)
           Rank(i) == Cardinality({j \in 1..n : keys[j] > keys[i] \/ (keys[j] = keys[i] /\ j < i)})
       IN [r \in 1..n |-> CHOOSE i \in 1..n : Rank(i) = r - 1])

ordered_moves(b, tt_move0, killers0, history) ==
    With(tt_move0, LAMBDA tt_move : With(killers0, LAMBDA killers :
       LET ms == legal(b)
           keys == [i \in 1..Len(ms) |-> OrderKey(b, ms[i].mv, tt_move, killers, history)]
       IN With(SortDescStable(keys), LAMBDA perm : [r \in 1..Len(ms) |-> ms[perm[r]].mv])))

\* ------------------------------------------------------------------------
\* Fallback move (main.rs 165-177, 677-683): the greatest legal move by
\* (capture, gives check, mvv, uci text), or "0000".
\* ------------------------------------------------------------------------
RECURSIVE LexLess(_, _)
LexLess(a, b) ==
    IF Len(a) = 0 THEN Len(b) > 0
    ELSE IF Len(b) = 0 THEN FALSE
    ELSE IF a[1] < b[1] THEN TRUE
    ELSE IF a[1] > b[1] THEN FALSE
    ELSE LexLess(Tail(a), Tail(b))

\* The uci text of a move as a sequence of character ranks: file letter,
\* rank digit, file letter, rank digit, then the promotion letter if any
\* (b < n < q < r).
UciText(m) ==
    LET base == <<m.from % 8, m.from \div 8, m.to % 8, m.to \div 8>>
    IN CASE m.promo = 0 -> base
         [] m.promo = 2 -> base \o <<1>>
         [] m.promo = 1 -> base \o <<2>>
         [] m.promo = 4 -> base \o <<3>>
         [] OTHER       -> base \o <<4>>

prefer_cap_check_mvv_uci(b, m) ==
    <<IF MoveRec(b, m).cap THEN 1 ELSE 0,
      IF gives_check(b, m) THEN 1 ELSE 0,
      10000 + (IF MoveRec(b, m).cap THEN MoveRec(b, m).victim ELSE P) * 10 - MoveRec(b, m).attacker>>
    \o UciText(m)

\* The answer "0000" is NoMove.
current_best_or_default(b) ==
    IF Len(legal(b)) = 0 THEN NoMove
    ELSE CHOOSE m \in LegalMoves(b) :
           \A o \in LegalMoves(b) \ {m} :
              LexLess(prefer_cap_check_mvv_uci(b, o), prefer_cap_check_mvv_uci(b, m))

\* ------------------------------------------------------------------------
\* Transposition table (main.rs 216-321).  buckets is kept sparse: a bucket
\* that was never written holds four default entries.
\* ------------------------------------------------------------------------
DefaultEntry == [key |-> 0, depth |-> EMPTY_DEPTH, score |-> 0, flag |-> EXACT, age |-> 0, best |-> 0]
DefaultBucket == [j \in 1..TT_ASSOC |-> DefaultEntry]
NoEntry == [some |-> FALSE, e |-> DefaultEntry]
AsI16(d) == ((d + 32768) % 65536) - 32768

\* Rounding the bucket count up to a power of two instead of down.
RECURSIVE Pow2Ceil(_, _)
Pow2Ceil(pow2, buckets) == IF pow2 < buckets THEN Pow2Ceil(pow2 * 2, buckets) ELSE pow2

RECURSIVE Pow2Floor(_, _)
Pow2Floor(pow2, buckets) == IF pow2 * 2 <= buckets THEN Pow2Floor(pow2 * 2, buckets) ELSE pow2

new_from_mb(tt_mb) ==
    LET entry_sz == Max(ENTRY_SIZE, 1)
        bytes == tt_mb * (1024 * 1024)
        total_entries == Max(bytes \div entry_sz, TT_ASSOC)
        buckets == Max(total_entries \div TT_ASSOC, 1)
        pow2 == Pow2Floor(1, buckets)
    IN [buckets |-> << >>, mask |-> pow2 - 1, age |-> 0]

idx(tt, key) == key % (tt.mask + 1)
Bucket(tt, i) == Get(tt.buckets, i, DefaultBucket)

RECURSIVE ProbeScan(_, _, _, _)
ProbeScan(bucket, key, j, best) ==
    IF j > TT_ASSOC THEN best
    ELSE LET e == bucket[j]
         IN IF e.key = key /\ e.depth > EMPTY_DEPTH /\ (~best.some \/ e.depth > best.e.depth)
            THEN ProbeScan(bucket, key, j + 1, [some |-> TRUE, e |-> e])
            ELSE ProbeScan(bucket, key, j + 1, best)

probe(tt, key) == With(Bucket(tt, idx(tt, key)), LAMBDA bucket : ProbeScan(bucket, key, 1, NoEntry))

RECURSIVE ReplaceScan(_, _, _)
ReplaceScan(bucket, j, replace_at) ==
    IF j > TT_ASSOC THEN replace_at
    ELSE LET e == bucket[j]
             r == bucket[replace_at]
             worse_depth == e.depth < r.depth
             same_depth_older == e.depth = r.depth /\ ((e.age - r.age) % 256) > 0
         IN ReplaceScan(bucket, j + 1, IF worse_depth \/ same_depth_older THEN j ELSE replace_at)

\* A table that never evicts: a key absent from a full bucket is dropped.
store_no_evict(tt, key, depth, score, flag, best) ==
    With(Bucket(tt, idx(tt, key)), LAMBDA bucket :
       LET i == idx(tt, key)
           ne == [key |-> key, depth |-> AsI16(depth), score |-> score, flag |-> flag,
                  age |-> tt.age, best |-> IF best = NoMove THEN 0 ELSE pack_move(best)]
           hits == {j \in 1..TT_ASSOC : bucket[j].key = key}
           free == {j \in 1..TT_ASSOC : bucket[j].depth = EMPTY_DEPTH}
           at == IF hits # {} THEN CHOOSE j \in hits : \A h \in hits : j <= h
                 ELSE ReplaceScan(bucket, 1, 1)
       IN IF hits = {} /\ free = {} THEN tt
          ELSE [tt EXCEPT !.buckets = Put(tt.buckets, i, [bucket EXCEPT ![at] = ne])])

store(tt, key, depth, score, flag, best) ==
    With(Bucket(tt, idx(tt, key)), LAMBDA bucket :
       LET i == idx(tt, key)
           ne == [key |-> key, depth |-> AsI16(depth), score |-> score, flag |-> flag,
                  age |-> tt.age, best |-> IF best = NoMove THEN 0 ELSE pack_move(best)]
           hits == {j \in 1..TT_ASSOC : bucket[j].key = key}
           at == IF hits # {} THEN CHOOSE j \in hits : \A h \in hits : j <= h
                 ELSE ReplaceScan(bucket, 1, 1)
       IN [tt EXCEPT !.buckets = Put(tt.buckets, i, [bucket EXCEPT ![at] = ne])])

\* The mate range entered one point later than from_tt enters it.
to_tt_strict(score, ply) ==
    IF score > MATE - MAX_AB_DEPTH THEN score + ply
    ELSE IF score < -MATE + MAX_AB_DEPTH THEN score - ply
    ELSE score

to_tt(score, ply) ==
    IF score >= MATE - MAX_AB_DEPTH THEN score + ply
    ELSE IF score <= -MATE + MAX_AB_DEPTH THEN score - ply
    ELSE score

from_tt(score, ply) ==
    IF score >= MATE - MAX_AB_DEPTH THEN score - ply
    ELSE IF score <= -MATE + MAX_AB_DEPTH THEN score + ply
    ELSE score

\* ------------------------------------------------------------------------
\* The search worker.  A thread is a record: the closure's locals, the
\* Search instance (nodes, tt, killers, history), and the call stack of
\* root_search / negamax / qsearch activations.  One step of a thread does
\* at most one access to shared state (a load of the stop flag, the swap of
\* bestmove_sent, or a line of output).
\* ------------------------------------------------------------------------
NoKillers == <<NoMove, NoMove>>
NoRet == [score |-> 0, move |-> NoMove]
NoEv == [k |-> "none", g |-> 0, d |-> 0, score |-> 0, mv |-> NoMove, cut |-> FALSE, by |-> "none"]

Count(seq, x) == Cardinality({i \in 1..Len(seq) : seq[i] = x})

Frame(fn, pc, b, depth, alpha, beta, ply, is_pv) ==
    [fn |-> fn, pc |-> pc, b |-> b, depth |-> depth, alpha |-> alpha, beta |-> beta,
     ply |-> ply, is_pv |-> is_pv, k |-> 0, in_check |-> FALSE, local_depth |-> 0,
     orig_alpha |-> 0, best_move |-> NoMove, best_score |-> -INF, moves |-> << >>,
     mi |-> 0, m |-> NoMove, must_draw |-> FALSE]

Top(t) == t.stack[Len(t.stack)]
SetTop(t, f) == [t EXCEPT !.stack[Len(t.stack)] = f]
Push(t, f) == [t EXCEPT !.stack = Append(@, f)]
Saw(t, stopv) == [t EXCEPT !.saw_stop = @ \/ stopv]

\* Return from the top activation with (score, move).
Ret(t0, score0, move) ==
    With(t0, LAMBDA t : With(score0, LAMBDA score :
       LET f == Top(t)
       IN [t EXCEPT !.stack = SubSeq(@, 1, Len(@) - 1),
                    !.ret = [score |-> score, move |-> move],
                    !.last_nm = IF f.fn = "nm"
                                THEN [must_draw |-> f.must_draw, score |-> score,
                                      stopped |-> t.saw_stop, b |-> f.b]
                                ELSE @]))

\* (for comparison: a return that leaves the key on the stack)
PopRep_keep(t) == t
PopRep(t) == [t EXCEPT !.rep_stack = SubSeq(@, 1, Len(@) - 1)]

\* root_search (main.rs 685-726): the activation is created with the moves
\* already ordered (lines 692-698); the move loop runs in RootStep.
RootFrame(t0, b, depth, alpha, beta) ==
    With(t0, LAMBDA t : With(probe(t.tt, board_key(b)), LAMBDA e :
       LET killers == Get(t.killers, 0, NoKillers)
           tt_move == IF e.some THEN unpack_move(e.e.best) ELSE NoMove
       IN [Frame("root", "loop", b, depth, alpha, beta, 0, TRUE)
             EXCEPT !.moves = ordered_moves(b, tt_move, killers, t.history)]))

RootUpdate(t, score) ==
    LET f == Top(t)
        f1 == IF score > f.best_score
              THEN [f EXCEPT !.best_score = score, !.best_move = f.m] ELSE f
    IN With(IF score > f1.alpha THEN [f1 EXCEPT !.alpha = score] ELSE f1, LAMBDA f2 :
          IF score > f.alpha /\ f2.alpha >= f2.beta
          THEN Ret(t, f2.best_score, f2.best_move)
          ELSE SetTop(t, [f2 EXCEPT !.mi = @ + 1, !.pc = "loop"]))

RootStep(t, stopv) ==
    LET f == Top(t)
    IN CASE f.pc = "loop" ->
              IF f.mi >= Len(f.moves) THEN Ret(t, f.best_score, f.best_move)
              ELSE IF stopv THEN Ret(Saw(t, stopv), f.best_score, f.best_move)
              ELSE LET m == f.moves[f.mi + 1]
                       nb == make_move_new(f.b, m)
                       t1 == [t EXCEPT !.rep_stack = <<board_key(f.b)>>]
                   IN IF f.mi = 0
                      THEN Push(SetTop(t1, [f EXCEPT !.m = m, !.pc = "final"]),
                                Frame("nm", "entry", nb, f.depth - 1, -f.beta, -f.alpha, 1, TRUE))
                      ELSE Push(SetTop(t1, [f EXCEPT !.m = m, !.pc = "pvs1"]),
                                Frame("nm", "entry", nb, f.depth - 1, -f.alpha - 1, -f.alpha, 1, FALSE))
         [] f.pc = "pvs1" ->
              LET score == -t.ret.score
              IN IF score > f.alpha /\ score < f.beta
                 THEN Push(SetTop(t, [f EXCEPT !.pc = "final"]),
                           Frame("nm", "entry", make_move_new(f.b, f.m), f.depth - 1,
                                 -f.beta, -f.alpha, 1, TRUE))
                 ELSE RootUpdate(t, score)
         [] OTHER -> RootUpdate(t, -t.ret.score)

\* The poll of the stop flag at the top of qsearch and negamax found it set
\* (main.rs 451, 496): the call returns alpha.
NmStopped(t) == Ret(Saw(t, TRUE), Top(t).alpha, NoMove)
\* (for comparison: a poll placed after the node counter is incremented)
QStopped_after_count(t) == Ret([Saw(t, TRUE) EXCEPT !.nodes = @ + 1], Top(t).alpha, NoMove)
QStopped(t) == Ret(Saw(t, TRUE), Top(t).alpha, NoMove)

\* qsearch (main.rs 450-484).
Noisy(b) ==
    LET ms == legal(b)
        sel == {i \in 1..Len(ms) : is_capture(b, ms[i].mv) \/ (Q_INCLUDE_CHECKS /\ gives_check(b, ms[i].mv))}
        n == Cardinality(sel)
        \* the selected moves in generation order
        pick == [r \in 1..n |-> CHOOSE i \in sel : Cardinality({j \in sel : j < i}) = r - 1]
        keys == [r \in 1..n |-> mvv_lva(b, ms[pick[r]].mv)]
        perm == SortDescStable(keys)
    IN [r \in 1..n |-> ms[pick[perm[r]]].mv]

QStep(t, stopv) ==
    LET f == Top(t)
    IN CASE f.pc = "entry" ->
              IF stopv THEN QStopped(t)
              ELSE LET t1 == [t EXCEPT !.nodes = @ + 1]
                       stand == evaluate(f.b)
                       a1 == IF stand > f.alpha THEN stand ELSE f.alpha
                   IN IF status(f.b) = "Checkmate" THEN Ret(t1, -MATE, NoMove)
                      ELSE IF status(f.b) = "Stalemate" THEN Ret(t1, 0, NoMove)
                      ELSE IF insufficient_material(f.b) THEN Ret(t1, 0, NoMove)
                      ELSE IF halfmove_clock_from_fen(f.b) >= 100 THEN Ret(t1, 0, NoMove)
                      ELSE IF stand >= f.beta THEN Ret(t1, f.beta, NoMove)
                      ELSE IF stand + Q_FUTILITY_MARGIN < a1 THEN Ret(t1, a1, NoMove)
                      ELSE SetTop(t1, [f EXCEPT !.alpha = a1, !.moves = Noisy(f.b),
                                                !.mi = 0, !.pc = "loop"])
         [] f.pc = "loop" ->
              IF f.mi >= Len(f.moves) THEN Ret(t, f.alpha, NoMove)
              ELSE IF stopv THEN Ret(Saw(t, stopv), f.alpha, NoMove)
              ELSE LET m == f.moves[f.mi + 1]
                   IN Push(SetTop(t, [f EXCEPT !.m = m, !.pc = "ret"]),
                           Frame("q", "entry", make_move_new(f.b, m), 0, -f.beta, -f.alpha, 0, FALSE))
         [] OTHER ->
              LET score == -t.ret.score
              IN IF score >= f.beta THEN Ret(t, f.beta, NoMove)
                 ELSE SetTop(t, [f EXCEPT !.alpha = IF score > @ THEN score ELSE @,
                                          !.mi = @ + 1, !.pc = "loop"])

\* negamax (main.rs 486-637).
\* Lines 621-636: after the move loop.
NmFinish(t0) ==
    With(t0, LAMBDA t : With(Top(t), LAMBDA f :
       IF f.best_move = NoMove /\ Len(legal(f.b)) = 0
       THEN Ret(PopRep(t), IF f.in_check THEN -MATE ELSE 0, NoMove)
       ELSE LET flag == IF f.best_score <= f.orig_alpha THEN ALPHA
                        ELSE IF f.best_score >= f.beta THEN BETA ELSE EXACT
                t1 == [t EXCEPT !.tt = store(@, f.k, f.local_depth,
                                             to_tt(f.best_score, f.ply), flag, f.best_move)]
            IN Ret(PopRep(t1), f.best_score, NoMove)))

\* Lines 597-618: the score of the current move has been obtained.
NmUpdate(t, score) ==
    LET f == Top(t)
        f1 == IF score > f.best_score
              THEN [f EXCEPT !.best_score = score, !.best_move = f.m] ELSE f
    IN With(IF score > f.alpha THEN [f1 EXCEPT !.alpha = score] ELSE f1, LAMBDA f2 :
          LET cutoff == score > f.alpha /\ f2.alpha >= f2.beta
              k0 == Get(t.killers, f.ply, NoKillers)[1]
              keyh == <<Boards[f.b].stm, f.m.to>>
              t1 == IF cutoff /\ ~is_capture(f.b, f.m)
                    THEN [t EXCEPT !.killers = Put(@, f.ply, <<f.m, k0>>),
                                   !.history = Put(@, keyh, Get(@, keyh, 0) + f.local_depth * f.local_depth)]
                    ELSE t
          IN IF cutoff THEN NmFinish(SetTop(t1, f2))
             ELSE SetTop(t, [f2 EXCEPT !.mi = @ + 1, !.pc = "loop"]))

Child(f, nb, depth, alpha, beta, is_pv) == Frame("nm", "entry", nb, depth, alpha, beta, f.ply + 1, is_pv)

\* (for comparison: a draw only at the fourth occurrence)
Threefold_fourth(reps) == reps >= 3
\* Line 511: the key already appears twice in the repetition stack.
Threefold(reps) == reps >= 2

\* Lines 496-546: entry of negamax up to the move loop.
NmEntry(t, stopv) ==
    With(Top(t), LAMBDA f : With(probe(t.tt, board_key(f.b)), LAMBDA tte :
    LET t1 == [t EXCEPT !.nodes = @ + 1]
        k == board_key(f.b)
        reps == Count(t.rep_stack, k)
        must == Count(t.hist0, k) + Count(Tail(t.rep_stack), k) >= 2
        t2 == SetTop([t1 EXCEPT !.rep_stack = Append(@, k)], [f EXCEPT !.must_draw = must])
        tt_score == from_tt(tte.e.score, f.ply)
        tt_cut == tte.some /\ tte.e.depth >= f.depth
                  /\ (tte.e.flag = EXACT
                      \/ (tte.e.flag = ALPHA /\ tt_score <= f.alpha)
                      \/ (tte.e.flag = BETA /\ tt_score >= f.beta))
        in_check == checkers(f.b)
        local_depth == IF in_check THEN f.depth + 1 ELSE f.depth
        tt_move == IF tte.some THEN unpack_move(tte.e.best) ELSE NoMove
        killers == Get(t.killers, f.ply, NoKillers)
        g == [Top(t2) EXCEPT !.k = k, !.in_check = in_check, !.local_depth = local_depth,
                             !.orig_alpha = f.alpha, !.best_move = NoMove, !.best_score = -INF,
                             !.mi = 0]
    IN IF stopv THEN NmStopped(t)
       ELSE IF status(f.b) = "Checkmate" THEN Ret(t1, -MATE, NoMove)
       ELSE IF status(f.b) = "Stalemate" THEN Ret(t1, 0, NoMove)
       ELSE IF insufficient_material(f.b) THEN Ret(t1, 0, NoMove)
       ELSE IF halfmove_clock_from_fen(f.b) >= 100 THEN Ret(t1, 0, NoMove)
       ELSE IF Threefold(reps) THEN Ret(SetTop(t1, [f EXCEPT !.must_draw = must]), 0, NoMove)
       ELSE IF tt_cut THEN Ret(PopRep(t2), tt_score, NoMove)
       ELSE IF local_depth <= 0
            THEN Push(SetTop(t2, [g EXCEPT !.pc = "after_q"]),
                      Frame("q", "entry", f.b, 0, f.alpha, f.beta, 0, FALSE))
       ELSE SetTop(t2, [g EXCEPT !.pc = "loop",
                                 !.moves = ordered_moves(f.b, tt_move, killers, t.history)])))

\* Lines 548-595: one iteration of the move loop up to the recursive call.
NmLoop(t, stopv) ==
    LET f == Top(t)
        m == f.moves[f.mi + 1]
        is_cap == is_capture(f.b, m)
        nb == make_move_new(f.b, m)
        gives_chk == checkers(nb)
        endgame_like == is_endgame_like(f.b)
        see == evaluate(f.b)
        futile == ~endgame_like /\ f.local_depth = 1 /\ ~is_cap /\ ~gives_chk
                  /\ see + FUTILITY_MARGIN_BASE <= f.alpha
        mcp == ~endgame_like /\ f.local_depth >= MCP_MIN_DEPTH /\ f.mi >= MCP_START_AT
               /\ ~is_cap /\ ~gives_chk
        do_lmr == f.local_depth >= LMR_MIN_DEPTH /\ ~f.is_pv /\ ~is_cap /\ ~gives_chk
                  /\ ~endgame_like
        reduce == LMR_BASE_REDUCTION + (IF f.mi >= 4 THEN 1 ELSE 0)
        new_depth == Max(f.local_depth - 1 - reduce, 1)
        fm == [f EXCEPT !.m = m]
    IN IF f.mi >= Len(f.moves) THEN NmFinish(t)
       ELSE IF stopv THEN NmFinish(Saw(t, stopv))
       ELSE IF futile \/ mcp THEN SetTop(t, [f EXCEPT !.mi = @ + 1])
       ELSE IF do_lmr
            THEN Push(SetTop(t, [fm EXCEPT !.pc = "lmr1"]),
                      Child(f, nb, new_depth, -f.alpha - 1, -f.alpha, FALSE))
       ELSE IF f.mi = 0
            THEN Push(SetTop(t, [fm EXCEPT !.pc = "final"]),
                      Child(f, nb, f.local_depth - 1, -f.beta, -f.alpha, f.is_pv))
       ELSE Push(SetTop(t, [fm EXCEPT !.pc = "pvs1"]),
                 Child(f, nb, f.local_depth - 1, -f.alpha - 1, -f.alpha, FALSE))

NmStep(t, stopv) ==
    LET f == Top(t)
        score == -t.ret.score
        nb == make_move_new(f.b, f.m)
    IN CASE f.pc = "entry" -> NmEntry(t, stopv)
         [] f.pc = "after_q" -> Ret(PopRep(t), t.ret.score, NoMove)
         [] f.pc = "loop" -> NmLoop(t, stopv)
         [] f.pc = "lmr1" ->
              IF score > f.alpha
              THEN Push(SetTop(t, [f EXCEPT !.pc = "final"]),
                        Child(f, nb, f.local_depth - 1, -f.beta, -f.alpha, FALSE))
              ELSE NmUpdate(t, score)
         [] f.pc = "pvs1" ->
              IF score > f.alpha /\ score < f.beta
              THEN Push(SetTop(t, [f EXCEPT !.pc = "final"]),
                        Child(f, nb, f.local_depth - 1, -f.beta, -f.alpha, TRUE))
              ELSE NmUpdate(t, score)
         [] OTHER -> NmUpdate(t, score)

\* pv_line_from_tt (main.rs 643-658).
RECURSIVE pv_line_from_tt(_, _, _)
pv_line_from_tt(b, tt, max_len) ==
    IF max_len <= 0 THEN << >>
    ELSE LET tte == probe(tt, board_key(b))
             m == unpack_move(tte.e.best)
         IN IF tte.some /\ m # NoMove /\ m \in LegalMoves(b)
            THEN <<m>> \o pv_line_from_tt(make_move_new(b, m), tt, max_len - 1)
            ELSE << >>

\* What the last entry of negamax or qsearch did (observed, not program state).
NoObs == [fn |-> "none", stopv |-> FALSE, alpha |-> 0, ret |-> 0, returned |-> FALSE, same |-> FALSE,
          reps |-> 0, live |-> FALSE, rep_same |-> FALSE]

IdleThread ==
    [pc |-> "idle", b0 |-> START, movetime |-> FALSE, timeup |-> FALSE, max_depth |-> 0,
     d |-> 0, window |-> 0, alpha |-> 0, beta |-> 0, last_score |-> 0, root_best |-> NoMove,
     nodes |-> 0, tt |-> new_from_mb(TT_MB), killers |-> << >>, history |-> << >>,
     stack |-> << >>, ret |-> NoRet, rep_stack |-> << >>,
     hist0 |-> << >>, saw_stop |-> FALSE, natural |-> FALSE, entry_obs |-> NoObs,
     last_nm |-> [must_draw |-> FALSE, score |-> 0, stopped |-> FALSE, b |-> START]]

\* The closure up to the deepening loop (main.rs 863-872).
NewThread(b0, depth, movetime, hist) ==
    [IdleThread EXCEPT !.pc = "iter_top", !.b0 = b0, !.movetime = movetime,
                       !.last_score = evaluate(b0),
                       !.max_depth = Min(Max(depth, 1), MAX_AB_DEPTH), !.d = 1,
                       !.hist0 = hist]

\* The deepening loop is left because the depth or the time limit is reached
\* (main.rs 873-874, 909), or because a poll found the stop flag set
\* (main.rs 875, 908); the closure continues at line 912.
LoopDone(t) == [t EXCEPT !.pc = "l912", !.natural = TRUE]
\* (for comparison: a deepening loop that polls the flag but does not leave)
IterStopped_continue(t) == [t EXCEPT !.pc = IF @ = "iter_top" THEN "post_info" ELSE "iter_top"]
IterStopped(t) == [t EXCEPT !.pc = "l912", !.natural = FALSE]

\* The value of sent.swap(true) decides whether the worker prints
\* (main.rs 914).
AfterSwap(old) == IF old THEN "done" ELSE "print"

\* (for comparison: a window that grows by its first width instead of doubling)
Widen_slowly(window) == Min(window + ASP_WINDOW, ASP_MAX_WIDEN)
\* Line 888: the next aspiration window.
Widen(window) == Min(window * 2, ASP_MAX_WIDEN)

\* One step of the closure (main.rs 873-912) or of the search it runs.
\* stopv is the value a load of the stop flag returns in this step, up
\* whether the time limit has elapsed when it is compared in this step.
WStep(t, g, stopv, up) ==
    CASE t.pc = "iter_top" ->
           IF t.d > t.max_depth THEN [t |-> LoopDone(t), ev |-> NoEv]
           ELSE IF t.movetime /\ up THEN [t |-> LoopDone([t EXCEPT !.timeup = TRUE]), ev |-> NoEv]
           ELSE IF stopv THEN [t |-> IterStopped(t), ev |-> NoEv]
           ELSE LET t1 == [t EXCEPT !.nodes = 0, !.tt.age = (@ + 1) % 256,
                                    !.window = ASP_WINDOW,
                                    !.alpha = t.last_score - ASP_WINDOW,
                                    !.beta = t.last_score + ASP_WINDOW,
                                    !.saw_stop = FALSE, !.pc = "search"]
                IN [t |-> Push(t1, RootFrame(t1, t.b0, t.d, t1.alpha, t1.beta)), ev |-> NoEv]
      [] t.pc = "search" /\ Len(t.stack) > 0 ->
           [t |-> CASE Top(t).fn = "root" -> RootStep(t, stopv)
                    [] Top(t).fn = "nm" -> NmStep(t, stopv)
                    [] OTHER -> QStep(t, stopv),
            ev |-> NoEv]
      [] t.pc = "search" /\ Len(t.stack) = 0 ->
           LET score == t.ret.score
               w2 == Widen(t.window)
           IN IF (score <= t.alpha \/ score >= t.beta) /\ t.window < ASP_MAX_WIDEN
              THEN LET t1 == [t EXCEPT !.window = w2, !.alpha = score - w2, !.beta = score + w2]
                   IN [t |-> Push(t1, RootFrame(t1, t.b0, t.d, t1.alpha, t1.beta)), ev |-> NoEv]
              ELSE LET ls == clamp(score, -INF + 1, INF - 1)
                   IN [t |-> [t EXCEPT !.root_best = IF t.ret.move # NoMove THEN t.ret.move ELSE @,
                                       !.last_score = ls, !.pc = "post_info"],
                       ev |-> [NoEv EXCEPT !.k = "info", !.g = g, !.d = t.d, !.score = ls,
                                           !.mv = LET pv == pv_line_from_tt(t.b0, t.tt, t.d)
                                                  IN IF Len(pv) > 0 THEN pv[1] ELSE NoMove,
                                           !.cut = t.saw_stop, !.by = "worker"]]
      [] t.pc = "post_info" ->
           IF stopv THEN [t |-> IterStopped(t), ev |-> NoEv]
           ELSE IF t.movetime /\ up THEN [t |-> LoopDone([t EXCEPT !.timeup = TRUE]), ev |-> NoEv]
           ELSE [t |-> [t EXCEPT !.d = @ + 1, !.pc = "iter_top"], ev |-> NoEv]
      [] t.pc = "l912" ->
           [t |-> [t EXCEPT !.pc = IF stopv THEN "done" ELSE "swap"], ev |-> NoEv]
      [] OTHER ->
           [t |-> [t EXCEPT !.pc = "done"],
            ev |-> [NoEv EXCEPT !.k = "bestmove", !.g = g, !.by = "worker",
                                !.mv = IF t.root_best # NoMove THEN t.root_best
                                       ELSE current_best_or_default(t.b0)]]

\* Whether the next step of the thread is purely thread-local: it neither
\* loads the stop flag, nor compares the clock, nor writes a line.
Local(t) ==
    \/ /\ t.pc = "search" /\ Len(t.stack) > 0
       /\ \/ Top(t).pc \in {"pvs1", "final", "lmr1", "after_q", "ret"}
          \/ Top(t).pc = "loop" /\ Top(t).mi >= Len(Top(t).moves)
    \/ /\ t.pc = "search" /\ Len(t.stack) = 0
       /\ (t.ret.score <= t.alpha \/ t.ret.score >= t.beta) /\ t.window < ASP_MAX_WIDEN
    \/ t.pc = "iter_top" /\ t.d > t.max_depth

\* The thread runs its local steps up to its next access to shared state;
\* when the closure returns, its locals and its Search instance are dropped.
RECURSIVE Settle(_, _)
Settle(t, g) ==
    IF t.pc = "done" THEN [IdleThread EXCEPT !.pc = "done", !.b0 = t.b0, !.natural = t.natural]
    ELSE IF Local(t) THEN With(WStep(t, g, FALSE, FALSE).t, LAMBDA t1 : Settle(t1, g)) ELSE t

\* ------------------------------------------------------------------------
\* State of the process
\* ------------------------------------------------------------------------
VARIABLES
    board,          \* main: the front-end position
    search_handle,  \* main: 0 (None) or the id of the thread whose handle is held
    stop_flag,      \* shared AtomicBool
    bestmove_sent,  \* shared AtomicBool
    dpc,            \* where the dispatcher is: "recv", a join, the swap of `stop`, "exited"
    pend,           \* the parameters of the `go` being handled
    ncmd,           \* number of commands received
    ngo,            \* number of threads spawned
    nrace,          \* number of commands received while the current worker runs
    thr,            \* the worker threads, by id
    hist,           \* keys of the boards the last `position` command went through
    out,            \* the `info depth` and `bestmove` lines written so far
    stop_done,      \* the handles held when a `stop` command was completed (observed)
    lab             \* the operands and result of a function applied on its own

vars == <<board, search_handle, stop_flag, bestmove_sent, dpc, pend, ncmd, ngo, nrace, thr, hist, out, stop_done, lab>>

ThreadIds == 1..MaxCmds
NoGo == [depth |-> 0, movetime |-> FALSE]

Alive(g) == thr[g].pc \notin {"idle", "done"}

\* What the commands of the model can carry.
e2e4 == Mv(Sq(5,2), Sq(5,4))
d7d5 == Mv(Sq(4,7), Sq(4,5))
Shuffle == <<Mv(Sq(7,8), Sq(8,8)), Mv(Sq(6,1), Sq(7,1)), Mv(Sq(8,8), Sq(7,8)), Mv(Sq(7,1), Sq(6,1))>>

PositionLines ==
    { [kind |-> "startpos", fen |-> START, moves |-> << >>],
      [kind |-> "startpos", fen |-> START, moves |-> <<e2e4, e2e4, NoMove, d7d5>>],
      [kind |-> "fen", fen |-> MATE1, moves |-> << >>],
      [kind |-> "fen", fen |-> 13, moves |-> Shuffle \o Shuffle],
      [kind |-> "fen", fen |-> STALE, moves |-> << >>] }

GoLines ==
    { [depth |-> 1, movetime |-> FALSE],
      [depth |-> 2, movetime |-> TRUE] }

NoLab == [k |-> "none"]

\* The state of main() when it enters the command loop (main.rs 748-751).
MainInit ==
    /\ board = START
    /\ search_handle = 0
    /\ stop_flag = FALSE
    /\ bestmove_sent = FALSE
    /\ dpc = "recv"
    /\ pend = NoGo
    /\ ncmd = 0
    /\ ngo = 0
    /\ nrace = 0
    /\ thr = [g \in ThreadIds |-> IdleThread]
    /\ hist = <<board_key(START)>>
    /\ out = << >>
    /\ stop_done = {}

Init == MainInit /\ lab = NoLab

Busy == \E g \in ThreadIds : Alive(g)
CanRecv == dpc = "recv" /\ ncmd < MaxCmds /\ (Busy => nrace < MaxRace)
Recv == ncmd' = ncmd + 1 /\ nrace' = IF Busy THEN nrace + 1 ELSE nrace

\* `uci`, `isready` and every unrecognised line (main.rs 757-768, 942).
Ignore ==
    /\ CanRecv
    /\ Recv
    /\ UNCHANGED <<board, search_handle, stop_flag, bestmove_sent, dpc, pend, ngo, thr, hist, out, stop_done>>

CmdOther == Ignore /\ UNCHANGED lab

\* (for comparison: a handle that is dropped without being joined)
Joined_detached(h) == h = h
\* h.join() returns once the thread has finished.
Joined(h) == thr[h].pc = "done"

\* `ucinewgame` (main.rs 769-780).
CmdUciNewGame ==
    /\ CanRecv
    /\ Recv
    /\ IF search_handle # 0
       THEN /\ stop_flag' = TRUE
            /\ dpc' = "newgame_join"
            /\ UNCHANGED <<board, hist>>
       ELSE /\ board' = START
            /\ hist' = <<board_key(START)>>
            /\ UNCHANGED <<stop_flag, dpc>>
    /\ UNCHANGED <<search_handle, bestmove_sent, pend, ngo, thr, out, stop_done, lab>>

NewGameJoin ==
    /\ dpc = "newgame_join"
    /\ Joined(search_handle)
    /\ search_handle' = 0
    /\ stop_flag' = FALSE
    /\ bestmove_sent' = FALSE
    /\ board' = START
    /\ hist' = <<board_key(START)>>
    /\ dpc' = "recv"
    /\ UNCHANGED <<pend, ncmd, ngo, nrace, thr, out, stop_done, lab>>

\* parse_uci_move (main.rs 661-675): an unparsable token is NoMove here.
\* The move list of `position` (main.rs 814-826).
RECURSIVE ApplyMoves(_, _, _)
ApplyMoves(b, toks, h) ==
    IF Len(toks) = 0 THEN [board |-> b, hist |-> h]
    ELSE LET mv == toks[1]
         IN IF mv # NoMove /\ mv \in LegalMoves(b)
            THEN ApplyMoves(make_move_new(b, mv), Tail(toks), Append(h, board_key(make_move_new(b, mv))))
            ELSE ApplyMoves(b, Tail(toks), h)

\* `position ...` (main.rs 781-830).
CmdPosition(line) ==
    /\ CanRecv
    /\ Recv
    /\ LET base == IF line.kind = "startpos" THEN START ELSE line.fen
           r == IF line.kind = "syntax"
                THEN [board |-> START, hist |-> <<board_key(START)>>]
                ELSE ApplyMoves(base, line.moves, <<board_key(base)>>)
       IN /\ board' = r.board
          /\ hist' = r.hist
    /\ UNCHANGED <<search_handle, stop_flag, bestmove_sent, dpc, pend, ngo, thr, out, stop_done, lab>>

\* thread::spawn of the worker (main.rs 859-863).
Spawn(p) ==
    /\ ngo' = ngo + 1
    /\ search_handle' = ngo + 1
    /\ thr' = [thr EXCEPT ![ngo + 1] = NewThread(board, p.depth, p.movetime, hist)]

\* `go ...` (main.rs 832-922).
StopAndSpawn(p) ==
    /\ CanRecv
    /\ ncmd' = ncmd + 1
    /\ nrace' = 0
    /\ IF search_handle # 0
       THEN /\ stop_flag' = TRUE
            /\ dpc' = "go_join"
            /\ pend' = p
            /\ UNCHANGED <<search_handle, ngo, thr>>
       ELSE /\ Spawn(p)
            /\ UNCHANGED <<stop_flag, dpc, pend>>
    /\ UNCHANGED <<board, bestmove_sent, hist, out, stop_done>>

CmdGo(p) == StopAndSpawn(p) /\ UNCHANGED lab

GoJoin ==
    /\ dpc = "go_join"
    /\ Joined(search_handle)
    /\ stop_flag' = FALSE
    /\ bestmove_sent' = FALSE
    /\ Spawn(pend)
    /\ pend' = NoGo
    /\ dpc' = "recv"
    /\ UNCHANGED <<board, ncmd, nrace, hist, out, stop_done, lab>>

\* `stop` (main.rs 924-931): the store, then the swap and the fallback line.
CmdStop ==
    /\ CanRecv
    /\ Recv
    /\ stop_flag' = TRUE
    /\ dpc' = "stop_swap"
    /\ UNCHANGED <<board, search_handle, bestmove_sent, pend, ngo, thr, hist, out, stop_done, lab>>

StopSwap ==
    /\ dpc = "stop_swap"
    /\ bestmove_sent' = TRUE
    /\ out' = IF ~bestmove_sent
              THEN Append(out, [NoEv EXCEPT !.k = "bestmove", !.g = search_handle, !.by = "main",
                                            !.mv = current_best_or_default(board)])
              ELSE out
    /\ dpc' = "recv"
    /\ stop_done' = stop_done \cup {search_handle}
    /\ UNCHANGED lab
    /\ UNCHANGED <<board, search_handle, stop_flag, pend, ncmd, ngo, nrace, thr, hist>>

\* `quit` (main.rs 933-941).
CmdQuit ==
    /\ CanRecv
    /\ Recv
    /\ IF search_handle # 0
       THEN /\ stop_flag' = TRUE
            /\ dpc' = "quit_join"
       ELSE /\ dpc' = "exited"
            /\ UNCHANGED stop_flag
    /\ UNCHANGED <<board, search_handle, bestmove_sent, pend, ngo, thr, hist, out, stop_done, lab>>

QuitJoin ==
    /\ dpc = "quit_join"
    /\ Joined(search_handle)
    /\ search_handle' = 0
    /\ dpc' = "exited"
    /\ UNCHANGED <<board, stop_flag, bestmove_sent, pend, ncmd, ngo, nrace, thr, hist, out, stop_done, lab>>

\* A step of worker g that does not touch bestmove_sent.
WorkerStep(g) ==
    /\ Alive(g)
    /\ thr[g].pc # "swap"
    /\ \E up \in (IF thr[g].movetime /\ ~thr[g].timeup /\ thr[g].pc \in {"iter_top", "post_info"}
                  THEN BOOLEAN ELSE {thr[g].timeup}) :
          \E t \in {thr[g]} : \E r \in {WStep(t, g, stop_flag, up)} :
          \E obs \in {IF t.pc = "search" /\ Len(t.stack) > 0 /\ Top(t).pc = "entry"
                      THEN [fn |-> Top(t).fn, stopv |-> stop_flag, alpha |-> Top(t).alpha,
                            ret |-> r.t.ret.score,
                            returned |-> r.t.stack = SubSeq(t.stack, 1, Len(t.stack) - 1),
                            same |-> /\ r.t.nodes = t.nodes /\ r.t.tt = t.tt
                                     /\ r.t.killers = t.killers /\ r.t.history = t.history
                                     /\ r.t.rep_stack = t.rep_stack,
                            reps |-> Count(t.rep_stack, board_key(Top(t).b)),
                            live |-> /\ status(Top(t).b) = "Ongoing"
                                     /\ ~insufficient_material(Top(t).b)
                                     /\ halfmove_clock_from_fen(Top(t).b) < 100,
                            rep_same |-> r.t.rep_stack = t.rep_stack]
                      ELSE t.entry_obs} :
             /\ thr' = [thr EXCEPT ![g] = Settle([r.t EXCEPT !.entry_obs = obs], g)]
             /\ out' = IF r.ev.k = "none" THEN out ELSE Append(out, r.ev)
    /\ UNCHANGED <<board, search_handle, stop_flag, bestmove_sent, dpc, pend, ncmd, ngo, nrace, hist, stop_done, lab>>

\* sent.swap(true) of the worker (main.rs 914).
WorkerSwap(g) ==
    /\ thr[g].pc = "swap"
    /\ bestmove_sent' = TRUE
    /\ thr' = [thr EXCEPT ![g] = Settle([@ EXCEPT !.pc = AfterSwap(bestmove_sent)], g)]
    /\ UNCHANGED <<board, search_handle, stop_flag, dpc, pend, ncmd, ngo, nrace, hist, out, stop_done, lab>>

Worker == \E g \in ThreadIds : WorkerStep(g) \/ WorkerSwap(g)

Next ==
    \/ CmdOther
    \/ CmdUciNewGame
    \/ NewGameJoin
    \/ \E line \in PositionLines : CmdPosition(line)
    \/ \E p \in GoLines : CmdGo(p)
    \/ GoJoin
    \/ CmdStop
    \/ StopSwap
    \/ CmdQuit
    \/ QuitJoin
    \/ Worker

Spec == Init /\ [][Next]_vars

\* The worker thread is scheduled until it returns; the dispatcher handles
\* the command it has received to its end.
\* The operating system schedules every runnable thread: a worker that has
\* not returned keeps taking steps, and the dispatcher continues once the
\* join or the swap it is executing can complete.
WorkerFair(g) == WF_vars(WorkerStep(g) \/ WorkerSwap(g))

FairSpec ==
    /\ Spec
    /\ \A g \in ThreadIds : WorkerFair(g)
    /\ WF_vars(NewGameJoin) /\ WF_vars(GoJoin) /\ WF_vars(QuitJoin) /\ WF_vars(StopSwap)

\* ------------------------------------------------------------------------
\* One search running undisturbed: the state after `position fen ...` and
\* `go depth d` (main.rs 781-830, 832-863), then only the worker runs.
\* ------------------------------------------------------------------------
MaxSearchDepth == 11

SearchRoots == {START, 5, MATE1, 13, SHUFFLE, HANGING}

SearchInit ==
    /\ \E b \in SearchRoots, d \in 1..MaxSearchDepth :
          /\ board = b
          /\ hist = <<board_key(b)>>
          /\ thr = [g \in ThreadIds |->
                      IF g = 1 THEN NewThread(b, d, FALSE, <<board_key(b)>>) ELSE IdleThread]
    /\ search_handle = 1
    /\ stop_flag = FALSE
    /\ bestmove_sent = FALSE
    /\ dpc = "recv"
    /\ pend = NoGo
    /\ ncmd = 2
    /\ ngo = 1
    /\ nrace = 0
    /\ out = << >>
    /\ stop_done = {}
    /\ lab = NoLab

SearchNext == WorkerStep(1) \/ WorkerSwap(1)

SearchSpec == SearchInit /\ [][SearchNext]_vars

\* ------------------------------------------------------------------------
\* Functions applied on their own: the operands are drawn in the initial
\* state, one step applies the function, and the program's state is idle.
\* ------------------------------------------------------------------------
Idle == UNCHANGED <<board, search_handle, stop_flag, bestmove_sent, dpc, pend, ncmd, ngo,
                    nrace, thr, hist, out, stop_done>>

\* pack_move / unpack_move (main.rs 182-211): every ChessMove::new(from, to,
\* promo) with from # to, and every code of the low range, 0 included.
MaxCode == 127
ChessMoves == {[from |-> f, to |-> t, promo |-> p] : f \in 0..63, t \in 0..63, p \in 0..4}

PackInit ==
    /\ MainInit
    /\ \/ \E m \in ChessMoves : m.from # m.to /\ lab = [k |-> "move", m |-> m]
       \/ \E c \in 0..MaxCode : lab = [k |-> "code", code |-> c]

PackUnpack ==
    /\ lab.k = "move"
    /\ \E c \in {pack_move(lab.m)} :
          lab' = [k |-> "unpacked", m |-> lab.m, code |-> c, back |-> unpack_move(c)]
    /\ Idle

Unpack ==
    /\ lab.k = "code"
    /\ lab' = [k |-> "decoded", code |-> lab.code, back |-> unpack_move(lab.code)]
    /\ Idle

PackNext == PackUnpack \/ Unpack
PackSpec == PackInit /\ [][PackNext]_vars

\* The transposition table on its own (main.rs 216-321): stores and new
\* iterations in any order on a fresh table.  Keys are board_key values
\* (never 0) that fall into one bucket; depths are those negamax passes.
MaxTTKeys == 5
MaxTTDepth == 2
MaxTTAge == 1
TTKeys == 1..MaxTTKeys
NoStore == [some |-> FALSE]

\* What the last store did: the key and depth it was given, whether it found
\* its bucket full of other keys, and what a probe of the key returns now.
Behind(tt, e) == (tt.age - e.age) % 256
FullMiss(bucket, key) == \A j \in 1..TT_ASSOC : bucket[j].depth > EMPTY_DEPTH /\ bucket[j].key # key

TTInit ==
    /\ MainInit
    /\ lab = [k |-> "tt", tt |-> new_from_mb(TT_MB), last |-> NoStore]

TTStore ==
    /\ lab.k = "tt"
    /\ \E key \in TTKeys, depth \in 1..MaxTTDepth :
          \E tt1 \in {store(lab.tt, key, depth, 0, EXACT, NoMove)} :
             lab' = [lab EXCEPT !.tt = tt1,
                                !.last = [some |-> TRUE, key |-> key, depth |-> depth,
                                          full_miss |-> FullMiss(Bucket(lab.tt, idx(lab.tt, key)), key),
                                          hit |-> probe(tt1, key)]]
    /\ Idle

TTNewIter ==
    /\ lab.k = "tt"
    /\ lab.tt.age < MaxTTAge
    /\ \E tt1 \in {[lab.tt EXCEPT !.age = (@ + 1) % 256]} :
          lab' = [lab EXCEPT !.tt = tt1,
                             !.last = IF @.some THEN [@ EXCEPT !.hit = probe(tt1, lab.last.key)] ELSE @]
    /\ Idle

TTNext == TTStore \/ TTNewIter
TTSpec == TTInit /\ [][TTNext]_vars

\* TT::new_from_mb on its own (main.rs 244-259): the budget is TT_MB as
\* Search::new parses it (main.rs 336-339), any usize; 128 when unset.
MaxTTMb == 128

NewTTInit ==
    /\ MainInit
    /\ \E mb \in 0..MaxTTMb : lab = [k |-> "mb", tt_mb |-> mb]

NewTT ==
    /\ lab.k = "mb"
    /\ lab' = [k |-> "table", tt_mb |-> lab.tt_mb, tt |-> new_from_mb(lab.tt_mb)]
    /\ Idle

NewTTSpec == NewTTInit /\ [][NewTT]_vars

\* to_tt / from_tt on their own (main.rs 309-321): scores within MaxBand of
\* 0, of the mate thresholds, of MATE and of INF, at every ply.
MaxBand == 70
Near(x, c) == x - c <= MaxBand /\ c - x <= MaxBand
TTScores ==
    {x \in -INF..INF : \E c \in {0, MATE - MAX_AB_DEPTH, MATE, INF} : Near(x, c) \/ Near(x, -c)}

TTScoreInit ==
    /\ MainInit
    /\ \E x \in TTScores, ply \in 0..MAX_AB_DEPTH : lab = [k |-> "score", s |-> x, ply |-> ply]

TTScore ==
    /\ lab.k = "score"
    /\ \E stored \in {to_tt(lab.s, lab.ply)} :
          lab' = [k |-> "probed", s |-> lab.s, ply |-> lab.ply, stored |-> stored,
                  back |-> from_tt(stored, lab.ply)]
    /\ Idle

TTScoreSpec == TTScoreInit /\ [][TTScore]_vars

\* ------------------------------------------------------------------------
\* The classical evaluator (eval.rs 1-185 with the helpers of types.rs).  A
\* position is the side to move, the fullmove number, the halfmove clock,
\* Board::status, and the men: colour, piece and square (rank*8+file).
\* ------------------------------------------------------------------------
TEMPO_BONUS == 10
BISHOP_PAIR_MG == 28
BISHOP_PAIR_EG == 12
CASTLED_BONUS_EARLY == 40
UNCASTLED_PENALTY_EARLY == 16
CENTER_PAWN_BONUS == 12
MINOR_DEV_PENALTY == 10
ROOK_OPEN_FILE_BONUS == 12
ROOK_SEMIOPEN_FILE_BONUS == 6
DOUBLED_PAWN_PENALTY_MG == 10
ISOLATED_PAWN_PENALTY_MG == 8
PHASE_MAX == 24

PST_KING_EG ==
    << -50,-40,-30,-30,-30,-30,-40,-50,
       -40,-20,  0,  0,  0,  0,-20,-40,
       -30,  0, 10, 15, 15, 10,  0,-30,
       -30,  0, 15, 20, 20, 15,  0,-30,
       -30,  0, 15, 20, 20, 15,  0,-30,
       -30,  0, 10, 15, 15, 10,  0,-30,
       -40,-20,  0,  0,  0,  0,-20,-40,
       -50,-40,-30,-30,-30,-30,-40,-50 >>
PASSED_PAWN_BONUS_BY_RANK == <<0, 5, 12, 24, 40, 70, 110, 0>>

opp(c) == IF c = W THEN Bl ELSE W
TruncDiv(a, b) == IF a >= 0 THEN a \div b ELSE -((-a) \div b)
types_clamp(v, lo, hi) == IF v < lo THEN lo ELSE IF v > hi THEN hi ELSE v

\* b.pieces(piece) & b.color_combined(color), and its popcnt.
Men(pos, piece, color) == {m.sq : m \in {x \in pos.men : x.p = piece /\ x.c = color}}
count_pieces(pos, piece, color) == Cardinality(Men(pos, piece, color))

relative_rank(color, sq) == IF color = W THEN sq \div 8 ELSE 7 - (sq \div 8)
file_idx(sq) == sq % 8

game_phase(pos) ==
    types_clamp(count_pieces(pos, "N", W) + count_pieces(pos, "B", W) + 2 * count_pieces(pos, "R", W)
                  + 4 * count_pieces(pos, "Q", W)
                + count_pieces(pos, "N", Bl) + count_pieces(pos, "B", Bl) + 2 * count_pieces(pos, "R", Bl)
                  + 4 * count_pieces(pos, "Q", Bl),
                0, PHASE_MAX)

rook_file_bonus(pos, c, sq) ==
    IF \E ps \in Men(pos, "P", c) : file_idx(ps) = file_idx(sq) THEN 0
    ELSE IF \E ps \in Men(pos, "P", opp(c)) : file_idx(ps) = file_idx(sq)
         THEN ROOK_SEMIOPEN_FILE_BONUS ELSE ROOK_OPEN_FILE_BONUS

is_passed_pawn(pos, sq, us) ==
    /\ sq \in Men(pos, "P", us)
    /\ \A df \in {-1, 0, 1} : \A rr \in (relative_rank(us, sq) + 1)..6 :
          LET ff == file_idx(sq) + df
              sq2 == IF us = W THEN rr * 8 + ff ELSE (7 - rr) * 8 + ff
          IN (ff >= 0 /\ ff <= 7) => sq2 \notin Men(pos, "P", opp(us))

\* The contribution of one colour to the middlegame score (eval.rs 39-100)
\* beyond material, before the sign of the side to move is applied.
MgExtras(pos, color) ==
    LET pawns == Men(pos, "P", color)
        opening_like == game_phase(pos) >= (PHASE_MAX * 2) \div 3
        ksq == CHOOSE k \in Men(pos, "K", color) : TRUE
        is_castled == IF color = W THEN ksq \in {Sq(7,1), Sq(3,1)} ELSE ksq \in {Sq(7,8), Sq(3,8)}
        central == {ps \in pawns :
                      \/ color = W  /\ relative_rank(color, ps) = 3 /\ file_idx(ps) \in {3, 4}
                      \/ color = Bl /\ relative_rank(color, ps) = 4 /\ file_idx(ps) \in {3, 4}}
        on_file(f) == {ps \in pawns : file_idx(ps) = f}
        doubled == {ps \in pawns : Cardinality(on_file(file_idx(ps))) >= 2}
        isolated == {ps \in pawns : on_file(file_idx(ps) - 1) = {} /\ on_file(file_idx(ps) + 1) = {}}
        rooks == Men(pos, "R", color)
        home == IF color = W THEN {Sq(2,1), Sq(7,1), Sq(3,1), Sq(6,1)}
                ELSE {Sq(2,8), Sq(7,8), Sq(3,8), Sq(6,8)}
        stuck == Cardinality((Men(pos, "N", color) \cup Men(pos, "B", color)) \cap home)
    IN (IF count_pieces(pos, "B", color) >= 2 THEN BISHOP_PAIR_MG ELSE 0)
       + (IF opening_like /\ is_castled THEN CASTLED_BONUS_EARLY
          ELSE IF opening_like /\ pos.fm >= 10 THEN -UNCASTLED_PENALTY_EARLY ELSE 0)
       + CENTER_PAWN_BONUS * Cardinality(central)
       + ROOK_OPEN_FILE_BONUS * Cardinality({r \in rooks : rook_file_bonus(pos, color, r) = ROOK_OPEN_FILE_BONUS})
       + ROOK_SEMIOPEN_FILE_BONUS * Cardinality({r \in rooks : rook_file_bonus(pos, color, r) = ROOK_SEMIOPEN_FILE_BONUS})
       - DOUBLED_PAWN_PENALTY_MG * Cardinality(doubled)
       - ISOLATED_PAWN_PENALTY_MG * Cardinality(isolated)
       - (IF opening_like THEN MINOR_DEV_PENALTY * stuck ELSE 0)

\* The contribution of one colour to the endgame score (eval.rs 102-153)
\* beyond material.
EgExtras(pos, color) ==
    LET them == opp(color)
        pawns == Men(pos, "P", color)
        passed == {ps \in pawns : is_passed_pawn(pos, ps, color)}
        ksq == CHOOSE k \in Men(pos, "K", color) : TRUE
        pst_index == IF color = W THEN ksq ELSE (7 - (ksq \div 8)) * 8 + (ksq % 8)
        opp_ksq == CHOOSE k \in Men(pos, "K", them) : TRUE
        opp_king_backrank == IF color = W THEN opp_ksq \div 8 = 7 ELSE opp_ksq \div 8 = 0
        opp_has_pawns == Men(pos, "P", them) # {}
        rooks == Men(pos, "R", color)
        seventh == {r \in rooks : relative_rank(color, r) = 6 /\ (opp_has_pawns \/ opp_king_backrank)}
        behind == {rp \in rooks \X passed :
                     file_idx(rp[2]) = file_idx(rp[1])
                     /\ relative_rank(color, rp[1]) < relative_rank(color, rp[2])}
        by_rank(rr) == PASSED_PAWN_BONUS_BY_RANK[rr + 1]
                         * Cardinality({ps \in passed : relative_rank(color, ps) = rr})
    IN PST_KING_EG[pst_index + 1]
       + by_rank(0) + by_rank(1) + by_rank(2) + by_rank(3) + by_rank(4) + by_rank(5) + by_rank(6) + by_rank(7)
       + 18 * Cardinality(seventh) + 20 * Cardinality(behind)

\* The scores before the tapered mix (eval.rs 21-175): mg0 and eg0 are the
\* sums of the terms, mg and eg what the opposite-bishop scaling leaves.
EvalTerms(pos) ==
    LET sgn(c) == IF c = pos.stm THEN 1 ELSE -1
        mat(c) == P * count_pieces(pos, "P", c) + N * count_pieces(pos, "N", c)
                  + B * count_pieces(pos, "B", c) + R_ * count_pieces(pos, "R", c)
                  + Q_ * count_pieces(pos, "Q", c)
        material == sgn(W) * mat(W) + sgn(Bl) * mat(Bl)
        mg0 == material + TEMPO_BONUS + sgn(W) * MgExtras(pos, W) + sgn(Bl) * MgExtras(pos, Bl)
        eg0 == material + sgn(W) * EgExtras(pos, W) + sgn(Bl) * EgExtras(pos, Bl)
        is_light(sq) == ((sq % 8) + (sq \div 8)) % 2 = 0
        ocb == /\ mat(W) + mat(Bl) <= B * 2 + P * 16
               /\ \A c \in {W, Bl} : /\ count_pieces(pos, "Q", c) = 0
                                     /\ count_pieces(pos, "R", c) = 0
                                     /\ count_pieces(pos, "B", c) = 1
               /\ is_light(CHOOSE x \in Men(pos, "B", W) : TRUE)
                    # is_light(CHOOSE x \in Men(pos, "B", Bl) : TRUE)
    IN [mg0 |-> mg0, eg0 |-> eg0,
        mg |-> IF ocb THEN TruncDiv(mg0 * 3, 4) ELSE mg0,
        eg |-> IF ocb THEN TruncDiv(eg0 * 3, 4) ELSE eg0]

\* ClassicalEval::eval (eval.rs 8-184).
ClassicalEval(pos) ==
    IF pos.status = "Checkmate" THEN -MATE
    ELSE IF pos.status = "Stalemate" THEN 0
    ELSE IF /\ Men(pos, "P", W) \cup Men(pos, "P", Bl) \cup Men(pos, "R", W) \cup Men(pos, "R", Bl)
                 \cup Men(pos, "Q", W) \cup Men(pos, "Q", Bl) = {}
            /\ count_pieces(pos, "N", W) + count_pieces(pos, "B", W) <= 1
            /\ count_pieces(pos, "N", Bl) + count_pieces(pos, "B", Bl) <= 1 THEN 0
    ELSE IF pos.halfmove >= 100 THEN 0
    ELSE With(EvalTerms(pos), LAMBDA e : With(game_phase(pos), LAMBDA phase :
            types_clamp(TruncDiv(e.mg * phase + e.eg * (PHASE_MAX - phase), Max(PHASE_MAX, 1)),
                        -INF + 1, INF - 1)))

\* The mirror of a position: ranks flipped, colours and the side to move
\* swapped.  Board::status is the same for both by the symmetry of the rules.
Mirror(pos) ==
    [pos EXCEPT !.stm = opp(@),
                !.men = {[c |-> opp(m.c), p |-> m.p, sq |-> (7 - (m.sq \div 8)) * 8 + (m.sq % 8)] : m \in @}]

\* Positions evaluated: kings on g1 and g8, knights on a3 and a6, a rook on
\* a1 and on a8 or not, one pawn each on the files c-f and the ranks 3-6,
\* either side to move.  Nobody is in check and the side to move can move.
EvalPawnSquares == {Sq(f, r) : f \in 3..6, r \in 3..6}
EvalPositions ==
    {[stm |-> stm, fm |-> 1, halfmove |-> 0, status |-> "Ongoing",
      men |-> {[c |-> W, p |-> "K", sq |-> Sq(7,1)], [c |-> Bl, p |-> "K", sq |-> Sq(7,8)],
               [c |-> W, p |-> "N", sq |-> Sq(1,3)], [c |-> Bl, p |-> "N", sq |-> Sq(1,6)],
               [c |-> W, p |-> "P", sq |-> wp], [c |-> Bl, p |-> "P", sq |-> bp]}
              \cup (IF wr THEN {[c |-> W, p |-> "R", sq |-> Sq(1,1)]} ELSE {})
              \cup (IF br THEN {[c |-> Bl, p |-> "R", sq |-> Sq(1,8)]} ELSE {})] :
        stm \in {W, Bl}, wp \in EvalPawnSquares, bp \in EvalPawnSquares, wr \in BOOLEAN, br \in BOOLEAN}

EvalInit ==
    /\ MainInit
    /\ \E pos \in EvalPositions :
          /\ Cardinality(Men(pos, "P", W) \cup Men(pos, "P", Bl)) = 2
          /\ lab = [k |-> "position", pos |-> pos]

Evaluate ==
    /\ lab.k = "position"
    /\ lab' = [k |-> "evaluated", pos |-> lab.pos, score |-> ClassicalEval(lab.pos),
               mirrored |-> ClassicalEval(Mirror(lab.pos))]
    /\ Idle

EvalSpec == EvalInit /\ [][Evaluate]_vars

\* ------------------------------------------------------------------------
\* The move list of `position startpos moves ...` on its own (main.rs
\* 814-826) with parse_uci_move (main.rs 661-675) on the text of each token.
\* A token is its characters; "e-acute" stands for a character of two bytes
\* in UTF-8, every other character is one byte.  The slices &s[0..2] and
\* &s[2..4] are byte ranges: a range that ends inside a character panics.
\* ------------------------------------------------------------------------
MaxMoves == 3
Files == <<"a", "b", "c", "d", "e", "f", "g", "h">>
Ranks == <<"1", "2", "3", "4", "5", "6", "7", "8">>
Tokens ==
    { <<"e", "2", "e", "4">>, <<"d", "7", "d", "5">>, <<"g", "1", "f", "3">>,
      <<"e", "2", "e", "5">>, <<"e", "2">>, <<"e", "9", "e", "4">>,
      <<"e", "e-acute", "e", "4">> }
MoveLists == UNION {[1..n -> Tokens] : n \in 0..MaxMoves}

RECURSIVE ByteLen(_)
ByteLen(s) == IF Len(s) = 0 THEN 0 ELSE (IF s[1] = "e-acute" THEN 2 ELSE 1) + ByteLen(Tail(s))
is_char_boundary(s, at) == \E n \in 0..Len(s) : ByteLen(SubSeq(s, 1, n)) = at
\* &s[a..b] for two character boundaries.
Slice(s, a, b) ==
    LET first == CHOOSE n \in 0..Len(s) : ByteLen(SubSeq(s, 1, n)) = a
        last == CHOOSE n \in 0..Len(s) : ByteLen(SubSeq(s, 1, n)) = b
    IN SubSeq(s, first + 1, last)

\* Square::from_str: a file letter and a rank digit, or an error (64).
SquareFromStr(s) ==
    IF ByteLen(s) < 2 THEN 64
    ELSE IF \A f \in 1..8 : Files[f] # s[1] THEN 64
    ELSE IF \A r \in 1..8 : Ranks[r] # s[2] THEN 64
    ELSE Sq(CHOOSE f \in 1..8 : Files[f] = s[1], CHOOSE r \in 1..8 : Ranks[r] = s[2])

\* parse_uci_move on text: None, Some(move), or a panic of the slicing.
parse_uci_text(s) ==
    IF ByteLen(s) < 4 THEN [k |-> "none"]
    ELSE IF ~is_char_boundary(s, 2) THEN [k |-> "panic"]
    ELSE IF SquareFromStr(Slice(s, 0, 2)) = 64 THEN [k |-> "none"]
    ELSE IF ~is_char_boundary(s, 4) THEN [k |-> "panic"]
    ELSE IF SquareFromStr(Slice(s, 2, 4)) = 64 THEN [k |-> "none"]
    ELSE LET c == IF ByteLen(s) = 5 THEN Slice(s, 4, 5)[1] ELSE "-"
             promo == CASE c = "n" -> 1 [] c = "b" -> 2 [] c = "r" -> 3 [] c = "q" -> 4 [] OTHER -> 0
         IN [k |-> "some", m |-> [from |-> SquareFromStr(Slice(s, 0, 2)),
                                  to |-> SquareFromStr(Slice(s, 2, 4)), promo |-> promo]]

\* The loop over the tokens: r holds the board, the tokens reported with
\* dbg=bad-move, the moves made, and whether the thread has panicked.
RECURSIVE MoveLoop(_, _)
MoveLoop(toks, r) ==
    IF Len(toks) = 0 THEN r
    ELSE With(parse_uci_text(toks[1]), LAMBDA mv :
            IF mv.k = "panic" THEN [r EXCEPT !.panicked = TRUE]
            ELSE IF mv.k = "some" /\ mv.m \in LegalMoves(r.board)
            THEN MoveLoop(Tail(toks), [r EXCEPT !.board = make_move_new(r.board, mv.m),
                                                !.made = Append(@, toks[1])])
            ELSE MoveLoop(Tail(toks), [r EXCEPT !.bad = Append(@, toks[1])]))

MovesInit ==
    /\ MainInit
    /\ \E toks \in MoveLists : lab = [k |-> "moves", toks |-> toks]

\* `position startpos moves <toks>`: a panic of the main thread ends the process.
PositionMoves ==
    /\ lab.k = "moves"
    /\ \E r \in {MoveLoop(lab.toks, [board |-> START, bad |-> << >>, made |-> << >>, panicked |-> FALSE])} :
          /\ lab' = [k |-> "applied", toks |-> lab.toks, r |-> r]
          /\ board' = r.board
          /\ dpc' = IF r.panicked THEN "exited" ELSE dpc
    /\ UNCHANGED <<search_handle, stop_flag, bestmove_sent, pend, ncmd, ngo, nrace, thr, hist, out, stop_done>>

MovesSpec == MovesInit /\ [][PositionMoves]_vars

\* ------------------------------------------------------------------------
\* The evaluator on positions without rooks and queens: kings on e1 and e8,
\* a white bishop on c1, a black bishop on c8 or f8, up to two knights a
\* side on their home squares and up to MaxOcbPawns pawns a side on their
\* home ranks, from the a-file on.  Nobody is in check.
\* ------------------------------------------------------------------------
MaxOcbPawns == 4
OcbPositions ==
    {[stm |-> stm, fm |-> 1, halfmove |-> 0, status |-> "Ongoing",
      men |-> {[c |-> W, p |-> "K", sq |-> Sq(5,1)], [c |-> Bl, p |-> "K", sq |-> Sq(5,8)],
               [c |-> W, p |-> "B", sq |-> Sq(3,1)], [c |-> Bl, p |-> "B", sq |-> Sq(bf,8)]}
              \cup {[c |-> W, p |-> "N", sq |-> Sq(<<2, 7>>[i], 1)] : i \in 1..wn}
              \cup {[c |-> Bl, p |-> "N", sq |-> Sq(<<2, 7>>[i], 8)] : i \in 1..bn}
              \cup {[c |-> W, p |-> "P", sq |-> Sq(f, 2)] : f \in 1..wp}
              \cup {[c |-> Bl, p |-> "P", sq |-> Sq(f, 7)] : f \in 1..bp}] :
        stm \in {W, Bl}, bf \in {3, 6}, wn \in 0..2, bn \in 0..2, wp \in 0..MaxOcbPawns, bp \in 0..MaxOcbPawns}

OcbInit ==
    /\ MainInit
    /\ \E pos \in OcbPositions : lab = [k |-> "ocb", pos |-> pos]

OcbEvaluate ==
    /\ lab.k = "ocb"
    /\ lab' = [k |-> "ocb_evaluated", pos |-> lab.pos, e |-> EvalTerms(lab.pos), score |-> ClassicalEval(lab.pos)]
    /\ Idle

OcbSpec == OcbInit /\ [][OcbEvaluate]_vars

\* ------------------------------------------------------------------------
\* `go` lines as text (main.rs 832-863): the trimmed line split at white
\* space; a number is the value its token parses to.  The dispatcher, the
\* joins and the workers run as in Spec, on a position without legal moves.
\* ------------------------------------------------------------------------
GoTexts ==
    { <<"go">>, <<"go", "depth", "2">>, <<"go", "movetime", "5">>, <<"go", "rollouts", "3">>,
      <<"go", "rollouts", "3", "depth", "1">>, <<"go", "depth", "x">> }

\* str::parse of the numbers the lines carry; anything else is an error (-1).
ParseNum(tok) ==
    CASE tok = "1" -> 1 [] tok = "2" -> 2 [] tok = "3" -> 3 [] tok = "5" -> 5 [] OTHER -> -1

\* The loop over parts (main.rs 838-846), i counted from 1.
RECURSIVE GoParams(_, _, _)
GoParams(parts, i, p) ==
    IF i + 1 > Len(parts) THEN p
    ELSE CASE parts[i] = "depth" ->
                GoParams(parts, i + 2, IF ParseNum(parts[i + 1]) # -1
                                       THEN [p EXCEPT !.depth = ParseNum(parts[i + 1])] ELSE p)
           [] parts[i] = "rollouts" -> GoParams(parts, i + 2, p)
           [] parts[i] = "movetime" ->
                GoParams(parts, i + 2, IF ParseNum(parts[i + 1]) # -1
                                       THEN [p EXCEPT !.movetime = TRUE] ELSE p)
           [] OTHER -> GoParams(parts, i + 1, p)

\* cmd.starts_with("go ") on the trimmed line: something follows the word.
StartsWithGo(parts) == Len(parts) > 1

GoLine(parts) ==
    /\ IF StartsWithGo(parts)
       THEN \E p \in {GoParams(parts, 2, [depth |-> DEFAULT_DEPTH, movetime |-> FALSE])} : StopAndSpawn(p)
       ELSE Ignore
    /\ lab' = [k |-> "go", parts |-> parts, ngo |-> ngo, handle |-> search_handle]

\* The state after `position fen ...` (main.rs 781-830).
GoRoots == {STALE, MATED}
GoInit ==
    /\ \E b \in GoRoots : /\ board = b
                          /\ hist = <<board_key(b)>>
    /\ search_handle = 0 /\ stop_flag = FALSE /\ bestmove_sent = FALSE
    /\ dpc = "recv" /\ pend = NoGo /\ ncmd = 1 /\ ngo = 0 /\ nrace = 0
    /\ thr = [g \in ThreadIds |-> IdleThread]
    /\ out = << >> /\ stop_done = {} /\ lab = NoLab

GoNext ==
    \/ \E parts \in GoTexts : GoLine(parts)
    \/ GoJoin
    \/ Worker

GoSpec == GoInit /\ [][GoNext]_vars

\* ------------------------------------------------------------------------
\* The entry a search leaves for the position MATE1 (White mates by Ra8):
\* `position fen <root>`, `go depth d` on a fresh Search (main.rs 867), the
\* deepening loop run undisturbed to its end (main.rs 873-910), twice.  The roots
\* are the positions one, two, three and four plies before MATE1.
\* ------------------------------------------------------------------------
MaxMateDepth == 5
MateRoots == <<15, 14, 13, MATE1>>

MateInit ==
    /\ MainInit
    /\ lab = [k |-> "mate", ply |-> 0, runs |-> << >>]

\* `position fen <root>` and `go depth d` in a fresh process.
MateGo ==
    /\ lab.k = "mate" /\ Len(lab.runs) < 2 /\ thr[1].pc = "idle"
    /\ \E ply \in 1..Len(MateRoots), d \in 1..MaxMateDepth :
          /\ board' = MateRoots[ply]
          /\ hist' = <<board_key(MateRoots[ply])>>
          /\ thr' = [thr EXCEPT ![1] = NewThread(MateRoots[ply], d, FALSE, <<board_key(MateRoots[ply])>>)]
          /\ lab' = [lab EXCEPT !.ply = ply]
    /\ search_handle' = 1 /\ ngo' = 1 /\ out' = << >>
    /\ UNCHANGED <<stop_flag, bestmove_sent, dpc, pend, ncmd, nrace, stop_done>>

\* The worker searches until the deepening loop is left.
MateSearch == thr[1].pc # "l912" /\ WorkerStep(1)

\* The loop has ended (main.rs 910): what is kept is the ply of MATE1 below
\* the root and the table's entry for it; the process ends.
MateEnd ==
    /\ lab.k = "mate" /\ thr[1].pc = "l912"
    /\ lab' = [lab EXCEPT !.runs = Append(@, [ply |-> lab.ply, hit |-> probe(thr[1].tt, board_key(MATE1))])]
    /\ thr' = [thr EXCEPT ![1] = IdleThread]
    /\ UNCHANGED <<board, search_handle, stop_flag, bestmove_sent, dpc, pend, ncmd, ngo, nrace, hist, out, stop_done>>

MateNext == MateGo \/ MateSearch \/ MateEnd
MateSpec == MateInit /\ [][MateNext]_vars

\* ------------------------------------------------------------------------
\* The aspiration loop of one iteration (main.rs 878-896) on its own: the
\* worker's step is applied to whatever score root_search may return; n
\* counts the calls of root_search made so far in the iteration.
\* ------------------------------------------------------------------------
AspScores == {-MATE, -1000, -100, -24, 0, 24, 100, 1000, MATE}

AspInit ==
    /\ MainInit
    /\ \E last \in AspScores :
          \E t \in {WStep([NewThread(START, 1, FALSE, << >>) EXCEPT !.last_score = last], 1, FALSE, FALSE).t} :
             lab = [k |-> "asp", t |-> t, n |-> 1]

\* root_search returns sc; the loop re-searches or accepts.
AspReturn ==
    /\ lab.k = "asp" /\ lab.t.pc = "search"
    /\ \E sc \in AspScores :
          \E t \in {WStep([lab.t EXCEPT !.stack = << >>, !.ret = [score |-> sc, move |-> NoMove]],
                          1, FALSE, FALSE).t} :
             lab' = [lab EXCEPT !.t = t, !.n = IF t.pc = "search" THEN @ + 1 ELSE @]
    /\ Idle

AspSpec == AspInit /\ [][AspReturn]_vars

\* ------------------------------------------------------------------------
\* Properties
\* ------------------------------------------------------------------------
Lines(kind, g) == {i \in 1..Len(out) : out[i].k = kind /\ out[i].g = g}
BmCount(g) == Cardinality(Lines("bestmove", g))
BmTotal == Cardinality({i \in 1..Len(out) : out[i].k = "bestmove"})
\* `go` commands received so far: the threads spawned and the go being handled.
GoTotal == ngo + (IF dpc = "go_join" THEN 1 ELSE 0)

\* C1: a `stop` racing with a worker that finishes on its own.  No search
\* ever gets two bestmove lines, and once the worker that left its deepening
\* loop without having seen the stop flag has returned and a `stop` received
\* during its search has been handled to its end, the search has exactly one.
C1_ExactlyOneOnRace ==
    \A g \in ThreadIds :
       /\ BmCount(g) <= 1
       /\ (thr[g].pc = "done" /\ thr[g].natural /\ g \in stop_done) => BmCount(g) = 1

\* C1 witness: the worker had read the stop flag clear at line 912 and the
\* dispatcher's swap won the race: the line was printed by the dispatcher.
C1_Witness ==
    \E g \in ThreadIds :
       /\ thr[g].pc = "done" /\ thr[g].natural /\ g \in stop_done
       /\ \E i \in Lines("bestmove", g) : out[i].by = "main"
       /\ stop_flag /\ bestmove_sent

\* C2: every `go` is answered with a bestmove.  Stated on finite runs: once
\* the worker of a go has returned and nobody can print for it any more (its
\* handle was replaced or dropped, or bestmove_sent is already set), a
\* bestmove line for it has been written.
C2_EveryGoAnswered ==
    \A g \in ThreadIds :
       (thr[g].pc = "done" /\ dpc = "recv" /\ (search_handle # g \/ bestmove_sent))
          => BmCount(g) >= 1

\* C3: at most one search worker thread is alive at any time.
C3_OneWorker == Cardinality({g \in ThreadIds : Alive(g)}) <= 1

\* C3 witness: a second worker runs after the first one was stopped and joined.
C3_Witness ==
    \E g \in ThreadIds :
       /\ g > 1 /\ Alive(g) /\ thr[g].pc = "search"
       /\ thr[g - 1].pc = "done" /\ ~thr[g - 1].natural

\* C4: the number of bestmove lines never exceeds the number of go commands.
C4_NoBestmoveWithoutGo == BmTotal <= GoTotal

\* C5: every bestmove line of a go names a move legal in the position that go
\* searched, or 0000 if that position has no legal move.
C5_BestmoveLegalInSearched ==
    \A i \in 1..Len(out) :
       (out[i].k = "bestmove" /\ out[i].g # 0) =>
          LET b0 == thr[out[i].g].b0
          IN IF Len(legal(b0)) = 0 THEN out[i].mv = NoMove
             ELSE out[i].mv \in LegalMoves(b0)

\* C6: a call of negamax or qsearch that begins while the stop flag is set
\* returns its alpha at once, visits no child, and leaves the node counter,
\* the transposition table, killers, history and repetition stack unchanged.
C6_StoppedCallReturnsAlpha ==
    \A g \in ThreadIds :
       LET o == thr[g].entry_obs
       IN (o.fn \in {"nm", "q"} /\ o.stopv) => (o.returned /\ o.ret = o.alpha /\ o.same)

\* C6 witness: a qsearch was entered with the stop flag set, by a negamax
\* whose own poll had still found it clear.
C6_Witness ==
    \E g \in ThreadIds :
       /\ thr[g].entry_obs.fn = "q" /\ thr[g].entry_obs.stopv
       /\ thr[g].nodes > 0

\* C7: once the stop flag is set while a search runs, the worker returns
\* after finitely many steps, and a join of the dispatcher ends.
C7_StopTerminates ==
    /\ \A g \in ThreadIds : (stop_flag /\ Alive(g)) ~> ~Alive(g)
    /\ (dpc \in {"go_join", "newgame_join", "quit_join"}) ~> (dpc \in {"recv", "exited"})

\* C7 witness: the dispatcher waits in a join for a worker that is inside
\* nested search calls.
C7_Witness ==
    /\ dpc \in {"go_join", "newgame_join", "quit_join"}
    /\ stop_flag
    /\ thr[search_handle].pc = "search" /\ Len(thr[search_handle].stack) >= 3

\* C8: the info depth lines of a go carry D = 1, 2, 3, ... in order, one per
\* completed iteration, and none is written for an iteration cut short by
\* the stop flag.
C8_InfoPerCompletedIteration ==
    \A g \in ThreadIds :
       \A i \in Lines("info", g) :
          /\ out[i].d = Cardinality({j \in Lines("info", g) : j <= i})
          /\ ~out[i].cut

\* C9: for a stalemate root the info line reports score 0 and the answer is
\* bestmove 0000.
C9_StalemateRoot ==
    \A i \in 1..Len(out) :
       (out[i].by = "worker" /\ status(thr[out[i].g].b0) = "Stalemate") =>
          IF out[i].k = "info" THEN out[i].score = 0 ELSE out[i].mv = NoMove

\* C10: a negamax call on a position that already occurred twice in the game
\* history plus the current search path returns 0 (stop flag never seen set).
C10_GameHistoryCounts ==
    \A g \in ThreadIds :
       (thr[g].last_nm.must_draw /\ ~thr[g].last_nm.stopped) => thr[g].last_nm.score = 0

\* C11: within one search path no key is pushed a third time: the repetition
\* stack never holds a key more than twice, and a negamax call entered with
\* the stop flag clear on a non-terminal position whose key is already twice
\* in the stack returns 0 at once, leaving the stack as it was.
C11_ThirdOccurrenceDraw ==
    \A g \in ThreadIds :
       /\ \A i \in 1..Len(thr[g].rep_stack) : Count(thr[g].rep_stack, thr[g].rep_stack[i]) <= 2
       /\ LET o == thr[g].entry_obs
          IN (o.fn = "nm" /\ ~o.stopv /\ o.live /\ o.reps >= 2)
                => (o.returned /\ o.ret = 0 /\ o.rep_same)

\* C11 witness: negamax was entered on a position already twice on the path.
C11_Witness ==
    \E g \in ThreadIds :
       LET o == thr[g].entry_obs
       IN o.fn = "nm" /\ ~o.stopv /\ o.live /\ o.reps >= 2 /\ o.returned

\* C12: for every move with from # to and any promotion (none, knight,
\* bishop, rook, queen), unpack_move(pack_move(m)) is Some(m) and the code
\* is never 0; unpack_move(0) is None.
C12_PackRoundTrip ==
    /\ lab.k = "unpacked" => (lab.code # 0 /\ lab.back = lab.m)
    /\ (lab.k = "decoded" /\ lab.code = 0) => lab.back = NoMove

\* C12 witness: a queen promotion has been packed and unpacked.
C12_Witness == lab.k = "unpacked" /\ lab.m.promo = 4 /\ lab.m.from = Sq(1,7) /\ lab.m.to = Sq(1,8)
\* C13: after store(k, d, s, f, m), whatever stores and age increments came
\* before, a probe of k with no store in between finds an entry whose key is
\* k and whose depth is at least d.
C13_StoredIsProbed ==
    (lab.k = "tt" /\ lab.last.some) =>
        /\ lab.last.hit.some
        /\ lab.last.hit.e.key = lab.last.key
        /\ lab.last.hit.e.depth >= lab.last.depth

\* C13 witness: a key absent from a full bucket has been stored, then a new
\* iteration has begun.
C13_Witness ==
    /\ lab.k = "tt" /\ lab.last.some
    /\ lab.last.full_miss
    /\ lab.tt.age > lab.last.hit.e.age
IsPow2(n) == \E e \in 0..40 : n = 2^e
BucketCount(tt) == tt.mask + 1
EveryBucketHasFour(tt) == \A i \in {0, tt.mask} : Len(Bucket(tt, i)) = 4

\* C14 as stated: for every budget TT_MB >= 0 the bucket count is a power of
\* two, each bucket has exactly 4 entries, and 4 x buckets is at most
\* TT_MB * 1_048_576 / sizeof(entry).
C14_WithinBudget ==
    lab.k = "table" =>
        /\ IsPow2(BucketCount(lab.tt))
        /\ EveryBucketHasFour(lab.tt)
        /\ 4 * BucketCount(lab.tt) <= (lab.tt_mb * 1048576) \div ENTRY_SIZE

\* C14 amended: the same, with the total entry count at most the larger of
\* TT_MB * 1_048_576 / sizeof(entry) and 4 (one bucket is always allocated).
C14_WithinBudgetOrOneBucket ==
    lab.k = "table" =>
        /\ IsPow2(BucketCount(lab.tt))
        /\ EveryBucketHasFour(lab.tt)
        /\ 4 * BucketCount(lab.tt) <= Max((lab.tt_mb * 1048576) \div ENTRY_SIZE, 4)

\* C14 witness: the table of the default budget, 128 MB, has 2^20 buckets.
C14_Witness == lab.k = "table" /\ lab.tt_mb = 128 /\ BucketCount(lab.tt) = 2^20
\* C15: from_tt(to_tt(s, p), p) = s for every score with |s| <= INF and every
\* ply p in 0..MAX_AB_DEPTH, mate-range scores and scores just below the
\* mate threshold included.
C15_ScoreRoundTrip == lab.k = "probed" => lab.back = lab.s

\* C15 witness: the score on the mate threshold stored at the deepest ply.
C15_Witness ==
    lab.k = "probed" /\ lab.s = MATE - MAX_AB_DEPTH /\ lab.ply = MAX_AB_DEPTH /\ lab.stored = MATE
\* C16: the evaluator is colour-symmetric: a position and its mirror (ranks
\* flipped, colours swapped, side to move swapped) get the same score, every
\* term, the central-pawn bonus included, being applied to mirrored squares.
C16_EvalMirror == lab.k = "evaluated" => lab.score = lab.mirrored
\* What the claim says of a token list: walk it from the starting position;
\* a token that is not the text of a legal move of the current board is
\* reported and skipped, any other is made.
TextOf(m) == <<Files[(m.from % 8) + 1], Ranks[(m.from \div 8) + 1], Files[(m.to % 8) + 1], Ranks[(m.to \div 8) + 1]>>
RECURSIVE SkipBad(_, _)
SkipBad(toks, r) ==
    IF Len(toks) = 0 THEN r
    ELSE LET hits == {m \in LegalMoves(r.board) : TextOf(m) = toks[1]}
         IN IF hits # {}
            THEN SkipBad(Tail(toks), [r EXCEPT !.board = make_move_new(r.board, CHOOSE m \in hits : TRUE),
                                               !.made = Append(@, toks[1])])
            ELSE SkipBad(Tail(toks), [r EXCEPT !.bad = Append(@, toks[1])])

\* C17: in `position ... moves`, a token that cannot be parsed or is not a
\* legal move is skipped with dbg=bad-move and leaves the position as it
\* was; the tokens after it are still applied, in order.
C17_BadMoveSkipped ==
    lab.k = "applied" =>
        lab.r = SkipBad(lab.toks, [board |-> START, bad |-> << >>, made |-> << >>, panicked |-> FALSE])
\* C18: every `go` line, with any of depth, movetime and rollouts or none of
\* them, stops the running worker and spawns a new one, whose depth is the
\* one given or DEFAULT_DEPTH.
C18_GoAlwaysSpawns ==
    (lab.k = "go" /\ dpc = "recv") =>
        /\ ngo = lab.ngo + 1
        /\ search_handle = ngo
        /\ lab.handle # 0 => ~Alive(lab.handle)
        /\ Alive(ngo) =>
              thr[ngo].max_depth = IF \E i \in 1..(Len(lab.parts) - 1) :
                                         lab.parts[i] = "depth" /\ ParseNum(lab.parts[i + 1]) # -1
                                   THEN ParseNum(lab.parts[1 + CHOOSE i \in 1..Len(lab.parts) : lab.parts[i] = "depth"])
                                   ELSE DEFAULT_DEPTH
\* The slot a store wrote: the one whose key became the stored key.
Replaced(old, new, key) == CHOOSE j \in 1..TT_ASSOC : new[j].key = key /\ old[j].key # key

\* C19: a store of a key absent from its full bucket replaces a slot of the
\* smallest stored depth and, among the slots of that depth, the one whose
\* age is furthest behind the table's age (wrapping u8 arithmetic).
C19_EvictShallowestOldest ==
    [][(lab.k = "tt" /\ lab'.k = "tt" /\ lab'.tt.buckets # lab.tt.buckets /\ lab'.last.full_miss) =>
          \E old \in {Bucket(lab.tt, idx(lab.tt, lab'.last.key))} :
             \E at \in {Replaced(old, Bucket(lab'.tt, idx(lab.tt, lab'.last.key)), lab'.last.key)} :
                \A j \in 1..TT_ASSOC :
                   /\ old[j].depth >= old[at].depth
                   /\ old[j].depth = old[at].depth => Behind(lab.tt, old[j]) <= Behind(lab.tt, old[at])]_vars
\* An entry that holds a mate score for the side to move.
IsMateEntry(hit) == hit.some /\ hit.e.score >= MATE - MAX_AB_DEPTH

\* C20: the score negamax stores for a position with a forced mate does not
\* depend on the ply at which the position was reached: stored from ply p1
\* and from ply p2 it is the same, and probed at p2 the entry stored from p1
\* gives the score the search at p2 gave the position.
C20_MateStoredPlyFree ==
    (lab.k = "mate" /\ Len(lab.runs) = 2 /\ IsMateEntry(lab.runs[1].hit) /\ IsMateEntry(lab.runs[2].hit)) =>
        /\ lab.runs[1].hit.e.score = lab.runs[2].hit.e.score
        /\ from_tt(lab.runs[1].hit.e.score, lab.runs[2].ply)
              = from_tt(lab.runs[2].hit.e.score, lab.runs[2].ply)
\* C21: the killer pair of a ply never holds the same move twice: when both
\* slots are set they differ.
C21_KillersDiffer ==
    \A g \in ThreadIds : \A ply \in DOMAIN thr[g].killers :
       (thr[g].killers[ply][1] # NoMove /\ thr[g].killers[ply][2] # NoMove)
          => thr[g].killers[ply][1] # thr[g].killers[ply][2]

\* The keys pushed by the activations of negamax that are past their entry,
\* outermost first.
RECURSIVE PushedKeys(_)
PushedKeys(stack) ==
    IF Len(stack) = 0 THEN << >>
    ELSE LET f == stack[Len(stack)]
             below == PushedKeys(SubSeq(stack, 1, Len(stack) - 1))
         IN IF f.fn = "nm" /\ f.pc # "entry" THEN Append(below, f.k) ELSE below

C23_AtMostEightSearches ==
    lab.k = "asp" =>
        /\ lab.n <= 8
        /\ lab.t.window = Min(ASP_WINDOW * 2^(lab.n - 1), ASP_MAX_WIDEN)
        /\ (lab.t.window = ASP_MAX_WIDEN /\ Len(lab.t.stack) = 0) => lab.t.pc = "post_info"

\* C23 witness: the eighth search returned a score outside the window of
\* 2048 and the score was accepted.
C23_Witness ==
    /\ lab.k = "asp" /\ lab.n = 8 /\ lab.t.pc = "post_info" /\ lab.t.window = ASP_MAX_WIDEN
    /\ (lab.t.ret.score <= lab.t.alpha \/ lab.t.ret.score >= lab.t.beta)
\* The two bishops stand on squares of different colours.
OppositeBishops(pos) ==
    \E wb \in Men(pos, "B", W), bb \in Men(pos, "B", Bl) :
       ((wb % 8) + (wb \div 8)) % 2 # ((bb % 8) + (bb \div 8)) % 2

\* C25: where no rooks or queens remain, each side has exactly one bishop
\* and the bishops stand on differently coloured squares, mg and eg are both
\* multiplied by 3/4, whatever the number of knights and pawns.
C25_OcbScaled ==
    (/\ lab.k = "ocb_evaluated"
     /\ \A c \in {W, Bl} : /\ count_pieces(lab.pos, "R", c) = 0 /\ count_pieces(lab.pos, "Q", c) = 0
                           /\ count_pieces(lab.pos, "B", c) = 1
     /\ OppositeBishops(lab.pos)) =>
        /\ lab.e.mg = TruncDiv(lab.e.mg0 * 3, 4)
        /\ lab.e.eg = TruncDiv(lab.e.eg0 * 3, 4)

\* The entries a thread's table holds, and the reserved score range.
Entries(g) == {thr[g].tt.buckets[i][j] : i \in DOMAIN thr[g].tt.buckets, j \in 1..TT_ASSOC}
InMateRange(score) == -MATE <= score /\ score <= MATE

\* C26: with the stop flag never set, every score negamax or root_search
\* returns for a position that has legal moves, every score stored in the
\* transposition table and every score of an `info` line lies in
\* [-MATE, MATE]; in particular -INF and +INF never appear.
C26_ScoresInMateRange ==
    ~stop_flag =>
       /\ \A g \in ThreadIds :
             /\ \A e \in Entries(g) : e.depth # EMPTY_DEPTH => InMateRange(e.score)
             /\ (~thr[g].saw_stop /\ Len(legal(thr[g].last_nm.b)) > 0) => InMateRange(thr[g].last_nm.score)
             /\ (thr[g].pc = "search" /\ Len(thr[g].stack) = 0 /\ Len(legal(thr[g].b0)) > 0)
                   => InMateRange(thr[g].ret.score)
       /\ \A i \in 1..Len(out) : (out[i].k = "info" /\ ~out[i].cut) => InMateRange(out[i].score)

\* The last `info` line thread g has written (0 if none).
LastInfo(g) ==
    LET own == {i \in 1..Len(out) : out[i].k = "info" /\ out[i].g = g}
    IN IF own = {} THEN 0 ELSE CHOOSE i \in own : \A j \in own : j <= i

\* C27: when an iteration on a root with legal moves has completed (the
\* worker has written its info line and the search was not cut by stop), the
\* principal variation of that line is non-empty and starts with the best
\* move root_search returned for the iteration.
C27_PvStartsWithBest ==
    \A g \in ThreadIds :
       (thr[g].pc = "post_info" /\ ~thr[g].saw_stop /\ Len(legal(thr[g].b0)) > 0 /\ LastInfo(g) > 0) =>
           /\ out[LastInfo(g)].mv # NoMove
           /\ out[LastInfo(g)].mv = thr[g].ret.move

\* C28: whenever the dispatcher spawns a worker for a `go`, the stop flag
\* and bestmove_sent are both false at the spawn, whatever commands came
\* before.
C28_SpawnWithFlagsClear ==
    [][ngo' = ngo + 1 => (~stop_flag' /\ ~bestmove_sent')]_vars

\* The move the table holds for the node of activation f, as negamax and
\* root_search read it before ordering (main.rs 539, 696).
TTMoveOf(t, f) ==
    LET e == probe(t.tt, board_key(f.b)) IN IF e.some THEN unpack_move(e.e.best) ELSE NoMove

\* C29: the sequence ordered_moves returns is a permutation of the legal
\* moves, and the transposition-table move, when it is legal, is its first
\* element, whatever the killers and the history table hold.  Stated of every
\* activation of negamax or root_search that has just ordered its moves.
C29_TTMoveFirst ==
    \A g \in ThreadIds :
       (Len(thr[g].stack) > 0 /\ Top(thr[g]).fn \in {"nm", "root"}
           /\ Top(thr[g]).pc = "loop" /\ Top(thr[g]).mi = 0 /\ Len(Top(thr[g]).moves) > 0) =>
          \E f \in {Top(thr[g])} :
             /\ Len(f.moves) = Len(legal(f.b))
             /\ {f.moves[i] : i \in 1..Len(f.moves)} = LegalMoves(f.b)
             /\ TTMoveOf(thr[g], f) \in LegalMoves(f.b) => f.moves[1] = TTMoveOf(thr[g], f)

\* C30: no `info depth` line of a search is written after the `bestmove`
\* line of that search (g names the search a line belongs to; a bestmove
\* written with no search ever started has g = 0).
C30_InfoBeforeBestmove ==
    \A i \in 1..Len(out) : \A j \in 1..Len(out) :
       (i < j /\ out[i].k = "bestmove" /\ out[i].g # 0 /\ out[j].k = "info") => out[j].g # out[i].g

====
